---- MODULE Spec2Model ----
(***************************************************************************)
(* The job pipeline of protoly: the TransformationJob state machine and    *)
(* the three use cases (fetch, transform, deliver) that drive it through   *)
(* abstract ports; the two HTTP adapters with their retry loops; and the   *)
(* rule engine behind the transformation port.                             *)
(*                                                                         *)
(* An optional Python value (X | None) is a sequence of length 0 or 1:     *)
(* None is <<>> and a present value v is <<v>>.  A positional argument     *)
(* list is a tuple.  An exception is a record [type, args], as Python's    *)
(* BaseException keeps its constructor arguments in .args.                 *)
(***************************************************************************)
EXTENDS Integers, Sequences, FiniteSets, TLC

None == <<>>

Some(v) == <<v>>

(***************************************************************************)
(* Bounds of the model.                                                    *)
(***************************************************************************)

\* The wall clock (datetime.now) takes the values 0..MaxClock.
MaxClock == 1

(***************************************************************************)
(* Input domains: the values the callers and the ports may supply.         *)
(***************************************************************************)

JobIds == {"job-1"}

Customers == [j \in JobIds |-> "test_customer"]

ConfigNames == [j \in JobIds |-> "test_config"]

Requests ==
    { [url |-> "https://api.example.com/data", method |-> "GET",
       headers |-> [Authorization |-> "Bearer token"], params |-> <<>>,
       body |-> None, timeout |-> 30],
      [url |-> "https://api.example.com/submit", method |-> "POST",
       headers |-> <<>>, params |-> <<>>,
       body |-> Some([query |-> "test"]), timeout |-> 60] }

\* A document is a mapping (a function of its keys); <<>> is the empty one.
UsersDocument == [users |-> <<[id |-> 1, name |-> "John"]>>]

CustomersDocument == [customers |-> <<[customer_id |-> 1, full_name |-> "John"]>>]

\* What the source port may return.
Responses ==
    { [status_code |-> 200, data |-> d, headers |-> <<>>, response_time_ms |-> 150]
        : d \in {UsersDocument, <<>>} }

DirectMappingRules == <<[source_field |-> "users", target_field |-> "customers"]>>

\* The (source_data, transformation_rules) pairs the transform use case is given.
TransformInputs == { <<UsersDocument, DirectMappingRules>>, <<(<<>>), (<<>>)>> }

\* What the transformation port may return.
TransformOutputs == {CustomersDocument, <<>>}

\* The (transformed_data, destination_config) pairs the deliver use case is given.
DeliverInputs ==
    { <<CustomersDocument, CHOOSE r \in Requests : r.method = "POST">>,
      <<(<<>>), CHOOSE r \in Requests : r.method = "GET">> }

\* Messages a caller passes to mark_as_failed directly.
Messages == {"Something went wrong", "Connection timeout"}

\* Exceptions a port may raise: instances of Exception, with zero or one argument.
PortErrors ==
    { [type |-> "Exception", args |-> <<"Connection timeout">>],
      [type |-> "RuntimeError", args |-> <<>>] }

(***************************************************************************)
(* Exceptions.                                                             *)
(***************************************************************************)

ValueError(msg) == [type |-> "ValueError", args |-> <<msg>>]

RECURSIVE JoinQuoted(_)
JoinQuoted(args) ==
    IF Len(args) = 0 THEN ""
    ELSE IF Len(args) = 1 THEN "'" \o args[1] \o "'"
    ELSE "'" \o args[1] \o "', " \o JoinQuoted(Tail(args))

\* str(e) of BaseException: "" without arguments, the argument itself when there
\* is one, the repr of the argument tuple otherwise.
str(e) ==
    IF Len(e.args) = 0 THEN ""
    ELSE IF Len(e.args) = 1 THEN e.args[1]
    ELSE "(" \o JoinQuoted(e.args) \o ")"

\* str(status) of the plain Enum member, as the f-strings of the guards format it.
StatusStr(status) == "JobStatus." \o status

(***************************************************************************)
(* TransformationJob                                                       *)
(***************************************************************************)

JobStatus == {"PENDING", "FETCHING", "TRANSFORMING", "DELIVERING", "COMPLETED", "FAILED"}

\* The dataclass constructor with its defaults: status PENDING, created_at the
\* current time, completed_at and error_message None.
TransformationJob(id, customer_id, config_name, t) ==
    [id |-> id, customer_id |-> customer_id, config_name |-> config_name,
     status |-> "PENDING", created_at |-> t,
     completed_at |-> None, error_message |-> None]

\* A method's effect: the job after the call and the exception it raised, if any.
Returned(job) == [job |-> job, exc |-> None]

Raised(job, e) == [job |-> job, exc |-> Some(e)]

\* Mutant: a failed job may be fetched again.
mark_as_fetching_retry(self) ==
    IF self.status \notin {"PENDING", "FAILED"}
    THEN Raised(self, ValueError("Cannot fetch from status " \o StatusStr(self.status)))
    ELSE Returned([self EXCEPT !.status = "FETCHING"])

mark_as_fetching(self) ==
    IF self.status # "PENDING"
    THEN Raised(self, ValueError("Cannot fetch from status " \o StatusStr(self.status)))
    ELSE Returned([self EXCEPT !.status = "FETCHING"])

\* Mutant: a job already TRANSFORMING passes the guard again.
mark_as_transforming_again(self) ==
    IF self.status \notin {"FETCHING", "TRANSFORMING"}
    THEN Raised(self, ValueError("Cannot transform from status " \o StatusStr(self.status)))
    ELSE Returned([self EXCEPT !.status = "TRANSFORMING"])

\* Mutant: the guard copied from mark_as_fetching, testing for PENDING.
mark_as_transforming_guard_pending(self) ==
    IF self.status # "PENDING"
    THEN Raised(self, ValueError("Cannot transform from status " \o StatusStr(self.status)))
    ELSE Returned([self EXCEPT !.status = "TRANSFORMING"])

mark_as_transforming(self) ==
    IF self.status # "FETCHING"
    THEN Raised(self, ValueError("Cannot transform from status " \o StatusStr(self.status)))
    ELSE Returned([self EXCEPT !.status = "TRANSFORMING"])

\* Mutant: a completed job may be delivered again.
mark_as_delivering_redeliver(self) ==
    IF self.status \notin {"TRANSFORMING", "COMPLETED"}
    THEN Raised(self, ValueError("Cannot deliver from status " \o StatusStr(self.status)))
    ELSE Returned([self EXCEPT !.status = "DELIVERING"])

\* Mutant: the guard also lets a FETCHING job through.
mark_as_delivering_from_fetching(self) ==
    IF self.status \notin {"FETCHING", "TRANSFORMING"}
    THEN Raised(self, ValueError("Cannot deliver from status " \o StatusStr(self.status)))
    ELSE Returned([self EXCEPT !.status = "DELIVERING"])

mark_as_delivering(self) ==
    IF self.status # "TRANSFORMING"
    THEN Raised(self, ValueError("Cannot deliver from status " \o StatusStr(self.status)))
    ELSE Returned([self EXCEPT !.status = "DELIVERING"])

\* Mutant: completing also clears the error message.
mark_as_completed_clears_error(self, t) ==
    Returned([self EXCEPT !.status = "COMPLETED", !.completed_at = Some(t),
                          !.error_message = None])

\* Mutant: the time of completion is written over the time of creation.
mark_as_completed_stamps_created(self, t) ==
    Returned([self EXCEPT !.status = "COMPLETED", !.created_at = t,
                          !.completed_at = Some(t)])

\* t is datetime.now(tz=UTC) at the call.
mark_as_completed(self, t) ==
    Returned([self EXCEPT !.status = "COMPLETED", !.completed_at = Some(t)])

\* Mutant: the completion timestamp is not set.
mark_as_failed_no_timestamp(self, error_message, t) ==
    Returned([self EXCEPT !.status = "FAILED",
                          !.error_message = Some(error_message)])

\* Mutant: a message already recorded is kept.
mark_as_failed_keeps_message(self, error_message, t) ==
    Returned([self EXCEPT !.status = "FAILED",
                          !.error_message =
                              IF self.error_message = None
                              THEN Some(error_message) ELSE self.error_message,
                          !.completed_at = Some(t)])

\* Mutant: a failed job counts as not completed, its timestamp is cleared.
mark_as_failed_clears_timestamp(self, error_message, t) ==
    Returned([self EXCEPT !.status = "FAILED",
                          !.error_message = Some(error_message),
                          !.completed_at = None])

mark_as_failed(self, error_message, t) ==
    Returned([self EXCEPT !.status = "FAILED",
                          !.error_message = Some(error_message),
                          !.completed_at = Some(t)])

(***************************************************************************)
(* The use cases.  execute() runs without suspension up to its await of    *)
(* the port, and resumes when the port returns or raises.                  *)
(***************************************************************************)

\* Mutant: the guarded transition sits inside the try block, a rejected call
\* is recorded as a failed fetch.
FetchSourceData_enter_guard_in_try(job, request_config) ==
    LET r == mark_as_fetching(job)
    IN  [job |-> IF r.exc = None
                 THEN r.job
                 ELSE mark_as_failed(job, "Failed to fetch source data: " \o str(r.exc[1]),
                                     job.created_at).job,
         exc |-> r.exc,
         port_args |-> IF r.exc = None THEN Some(<<request_config>>) ELSE None]

\* FetchSourceDataUseCase.execute up to the await: the guarded transition, then
\* the arguments source_adapter.fetch is called with (None when the transition
\* raised and the port is not reached).
FetchSourceData_enter(job, request_config) ==
    LET r == mark_as_fetching(job)
    IN  [job |-> r.job, exc |-> r.exc,
         port_args |-> IF r.exc = None THEN Some(<<request_config>>) ELSE None]

\* Mutant: execute returns the body of the response instead of the response.
FetchSourceData_return_body(job, response) ==
    [job |-> job, value |-> Some(response.data), exc |-> None]

\* The port returned `response`: execute returns it.
FetchSourceData_return(job, response) ==
    [job |-> job, value |-> Some(response), exc |-> None]

\* The port raised e (an Exception): record the failure, re-raise.
\* Mutant: the failure is re-raised without being recorded on the job.
FetchSourceData_except_unrecorded(job, e, t) ==
    [job |-> job, value |-> None, exc |-> Some(e)]

FetchSourceData_except(job, e, t) ==
    [job |-> mark_as_failed(job, "Failed to fetch source data: " \o str(e), t).job,
     value |-> None, exc |-> Some(e)]

\* Mutant: the engine is handed an empty document instead of the source data.
TransformData_enter_drops_source(job, source_data, transformation_rules) ==
    LET r == mark_as_transforming(job)
    IN  [job |-> r.job, exc |-> r.exc,
         port_args |-> IF r.exc = None
                       THEN Some(<<(<<>>), transformation_rules>>) ELSE None]

TransformData_enter(job, source_data, transformation_rules) ==
    LET r == mark_as_transforming(job)
    IN  [job |-> r.job, exc |-> r.exc,
         port_args |-> IF r.exc = None
                       THEN Some(<<source_data, transformation_rules>>) ELSE None]

\* Mutant: the use case moves the job on to the next stage when the engine returns.
TransformData_return_advances(job, transformed_data) ==
    [job |-> mark_as_delivering(job).job, value |-> Some(transformed_data), exc |-> None]

TransformData_return(job, transformed_data) ==
    [job |-> job, value |-> Some(transformed_data), exc |-> None]

\* Mutant: the handler copied from the fetch use case, with its prefix.
TransformData_except_fetch_prefix(job, e, t) ==
    [job |-> mark_as_failed(job, "Failed to fetch source data: " \o str(e), t).job,
     value |-> None, exc |-> Some(e)]

TransformData_except(job, e, t) ==
    [job |-> mark_as_failed(job, "Failed to transform data: " \o str(e), t).job,
     value |-> None, exc |-> Some(e)]

\* Mutant: the guarded transition sits inside the try block, a rejected call
\* is recorded as a failed delivery.
DeliverData_enter_guard_in_try(job, transformed_data, destination_config) ==
    LET r == mark_as_delivering(job)
    IN  [job |-> IF r.exc = None
                 THEN r.job
                 ELSE mark_as_failed(job, "Failed to deliver data: " \o str(r.exc[1]),
                                     job.created_at).job,
         exc |-> r.exc,
         port_args |-> IF r.exc = None
                       THEN Some(<<destination_config, transformed_data>>) ELSE None]

\* destination_adapter.deliver takes the destination first, the data second.
DeliverData_enter(job, transformed_data, destination_config) ==
    LET r == mark_as_delivering(job)
    IN  [job |-> r.job, exc |-> r.exc,
         port_args |-> IF r.exc = None
                       THEN Some(<<destination_config, transformed_data>>) ELSE None]

\* Mutant: execute returns without completing the job.
DeliverData_return_keeps_delivering(job, t) ==
    [job |-> job, value |-> None, exc |-> None]

\* The port returned: the job is completed and execute returns None.
DeliverData_return(job, t) ==
    [job |-> mark_as_completed(job, t).job, value |-> None, exc |-> None]

\* Mutant: the failure is wrapped in a new exception instead of re-raised.
DeliverData_except_wraps(job, e, t) ==
    [job |-> mark_as_failed(job, "Failed to deliver data: " \o str(e), t).job,
     value |-> None, exc |-> Some([type |-> "DeliveryError", args |-> <<str(e)>>])]

DeliverData_except(job, e, t) ==
    [job |-> mark_as_failed(job, "Failed to deliver data: " \o str(e), t).job,
     value |-> None, exc |-> Some(e)]

(***************************************************************************)
(* State.                                                                  *)
(***************************************************************************)

VARIABLES
    jobs,       \* id -> TransformationJob
    now,        \* the wall clock
    inflight,   \* the execute() calls suspended in their port, oldest first
    portCalls,  \* id -> port -> the calls made to that port on behalf of the job
    portResults, \* id -> port -> how those calls ended ("returned" / "raised"), in order
    last,       \* the latest call step: what was called, on what, and how it ended
    http,       \* the latest call of an HTTP adapter (fetch or deliver) and its progress
    engine      \* the TransformationEngine: its registry and its latest transform call

\* The job pipeline's part of the state, and the adapters' part.
pipelineVars == <<jobs, now, inflight, portCalls, portResults, last>>

adapterVars == <<http, engine>>

vars == <<jobs, now, inflight, portCalls, portResults, last, http, engine>>

Ports == {"source", "transformation", "destination"}

\* No adapter object has been built: the ports of the use cases are stand-ins.
NoHttpCall == [adapter |-> "none", pc |-> "none"]

NoEngineCall == [pc |-> "none"]

NoCalls == [p \in Ports |-> <<>>]

\* The record of one call step.  pre is the job just before the step; outcome is
\* "returned", "raised", or "awaiting" (execute suspended in its port).
Step(op, id, args, pre, outcome, value, exc, port_args, port_result) ==
    [op |-> op, job |-> id, args |-> args, pre |-> pre, outcome |-> outcome,
     value |-> value, exc |-> exc, port_args |-> port_args, port_result |-> port_result]

Outcome(r) == IF r.exc = None THEN "returned" ELSE "raised"

Init ==
    /\ now = 0
    /\ jobs = [id \in JobIds |-> TransformationJob(id, Customers[id], ConfigNames[id], 0)]
    /\ inflight = <<>>
    /\ portCalls = [id \in JobIds |-> NoCalls]
    /\ portResults = [id \in JobIds |-> NoCalls]
    /\ http = NoHttpCall
    /\ engine = NoEngineCall
    /\ last = Step("init", None, <<>>, None, "returned", None, None, None, None)

Tick ==
    /\ now < MaxClock
    /\ now' = now + 1
    /\ UNCHANGED <<jobs, inflight, portCalls, portResults, last>>
    /\ UNCHANGED adapterVars

(***************************************************************************)
(* Direct calls of the job's methods.                                      *)
(***************************************************************************)

MethodCall(op, id, args, r) ==
    /\ jobs' = [jobs EXCEPT ![id] = r.job]
    /\ last' = Step(op, id, args, jobs[id], Outcome(r), None, r.exc, None, None)
    /\ UNCHANGED <<now, inflight, portCalls, portResults>>
    /\ UNCHANGED adapterVars

MarkAsFetching(id) == MethodCall("mark_as_fetching", id, <<>>, mark_as_fetching(jobs[id]))

MarkAsTransforming(id) ==
    MethodCall("mark_as_transforming", id, <<>>, mark_as_transforming(jobs[id]))

MarkAsDelivering(id) ==
    MethodCall("mark_as_delivering", id, <<>>, mark_as_delivering(jobs[id]))

MarkAsCompleted(id) ==
    MethodCall("mark_as_completed", id, <<>>, mark_as_completed(jobs[id], now))

MarkAsFailed(id, msg) ==
    MethodCall("mark_as_failed", id, <<msg>>, mark_as_failed(jobs[id], msg, now))

(***************************************************************************)
(* Executions of the use cases.                                            *)
(***************************************************************************)

\* The port each use case holds.
PortOf == [fetch |-> "source", transform |-> "transformation", deliver |-> "destination"]

RemoveAt(s, i) == SubSeq(s, 1, i - 1) \o SubSeq(s, i + 1, Len(s))

\* execute() up to its await: r is the use case's *_enter result.  When the
\* guarded transition raised, the call is over; otherwise the port has been
\* called (with the job in the status the port can observe) and execute waits.
Enter(uc, port, id, args, r) ==
    /\ jobs' = [jobs EXCEPT ![id] = r.job]
    /\ IF r.port_args = None
       THEN /\ last' = Step(uc, id, args, jobs[id], "raised", None, r.exc, None, None)
            /\ UNCHANGED <<inflight, portCalls>>
       ELSE /\ inflight' = Append(inflight,
                                  [uc |-> uc, job |-> id, args |-> args,
                                   port_args |-> r.port_args[1]])
            /\ portCalls' = [portCalls EXCEPT ![id][port] =
                                Append(@, [args |-> r.port_args[1], status |-> r.job.status])]
            /\ last' = Step(uc, id, args, jobs[id], "awaiting", None, None, r.port_args, None)
    /\ UNCHANGED <<now, portResults>>
    /\ UNCHANGED adapterVars

\* Mutant: when the port raises, execute calls it again instead of ending.
Resume_retries(i, r, port_result) ==
    LET x == inflight[i]
    IN  /\ jobs' = [jobs EXCEPT ![x.job] = IF port_result.kind = "raised" THEN @ ELSE r.job]
        /\ inflight' = IF port_result.kind = "raised" THEN inflight ELSE RemoveAt(inflight, i)
        /\ last' = Step(x.uc, x.job, x.args, jobs[x.job],
                        IF port_result.kind = "raised" THEN "awaiting" ELSE Outcome(r),
                        r.value, None, Some(x.port_args), Some(port_result))
        /\ portResults' = [portResults EXCEPT ![x.job][PortOf[x.uc]] =
                               Append(@, port_result.kind)]
        /\ portCalls' = IF port_result.kind = "raised"
                        THEN [portCalls EXCEPT ![x.job][PortOf[x.uc]] =
                                Append(@, [args |-> x.port_args, status |-> jobs[x.job].status])]
                        ELSE portCalls
        /\ UNCHANGED now
        /\ UNCHANGED adapterVars

\* Mutant: the use case keeps the job on itself; an execution resuming after
\* another one was entered writes the job of that other one.
Resume_shared_job(i, r, port_result) ==
    LET x == inflight[i]
    IN  /\ jobs' = [jobs EXCEPT ![inflight[Len(inflight)].job] = r.job]
        /\ inflight' = RemoveAt(inflight, i)
        /\ last' = Step(x.uc, x.job, x.args, jobs[x.job], Outcome(r), r.value, r.exc,
                        Some(x.port_args), Some(port_result))
        /\ portResults' = [portResults EXCEPT ![x.job][PortOf[x.uc]] =
                               Append(@, port_result.kind)]
        /\ UNCHANGED <<now, portCalls>>
        /\ UNCHANGED adapterVars

\* execute() from the port's answer to its end: r is the use case's *_return or
\* *_except result, port_result what the port returned or raised.
Resume(i, r, port_result) ==
    LET x == inflight[i]
    IN  /\ jobs' = [jobs EXCEPT ![x.job] = r.job]
        /\ inflight' = RemoveAt(inflight, i)
        /\ last' = Step(x.uc, x.job, x.args, jobs[x.job], Outcome(r), r.value, r.exc,
                        Some(x.port_args), Some(port_result))
        /\ portResults' = [portResults EXCEPT ![x.job][PortOf[x.uc]] =
                               Append(@, port_result.kind)]
        /\ UNCHANGED <<now, portCalls>>
        /\ UNCHANGED adapterVars

FetchExecute(id, request_config) ==
    Enter("fetch", "source", id, <<request_config>>,
          FetchSourceData_enter(jobs[id], request_config))

FetchPortReturns(i, response) ==
    /\ inflight[i].uc = "fetch"
    /\ Resume(i, FetchSourceData_return(jobs[inflight[i].job], response),
              [kind |-> "returned", value |-> Some(response)])

FetchPortRaises(i, e) ==
    /\ inflight[i].uc = "fetch"
    /\ Resume(i, FetchSourceData_except(jobs[inflight[i].job], e, now),
              [kind |-> "raised", value |-> Some(e)])

TransformExecute(id, source_data, transformation_rules) ==
    Enter("transform", "transformation", id, <<source_data, transformation_rules>>,
          TransformData_enter(jobs[id], source_data, transformation_rules))

TransformPortReturns(i, transformed_data) ==
    /\ inflight[i].uc = "transform"
    /\ Resume(i, TransformData_return(jobs[inflight[i].job], transformed_data),
              [kind |-> "returned", value |-> Some(transformed_data)])

TransformPortRaises(i, e) ==
    /\ inflight[i].uc = "transform"
    /\ Resume(i, TransformData_except(jobs[inflight[i].job], e, now),
              [kind |-> "raised", value |-> Some(e)])

DeliverExecute(id, transformed_data, destination_config) ==
    Enter("deliver", "destination", id, <<transformed_data, destination_config>>,
          DeliverData_enter(jobs[id], transformed_data, destination_config))

DeliverPortReturns(i) ==
    /\ inflight[i].uc = "deliver"
    /\ Resume(i, DeliverData_return(jobs[inflight[i].job], now),
              [kind |-> "returned", value |-> None])

DeliverPortRaises(i, e) ==
    /\ inflight[i].uc = "deliver"
    /\ Resume(i, DeliverData_except(jobs[inflight[i].job], e, now),
              [kind |-> "raised", value |-> Some(e)])

(***************************************************************************)
(* Spec: any caller, any interleaving.  The job's methods are called        *)
(* directly and through the use cases, and executions overlap at their      *)
(* awaits.                                                                  *)
(***************************************************************************)

Next ==
    \/ Tick
    \/ \E id \in DOMAIN jobs : MarkAsFetching(id)
    \/ \E id \in DOMAIN jobs : MarkAsTransforming(id)
    \/ \E id \in DOMAIN jobs : MarkAsDelivering(id)
    \/ \E id \in DOMAIN jobs : MarkAsCompleted(id)
    \/ \E id \in DOMAIN jobs, msg \in Messages : MarkAsFailed(id, msg)
    \/ \E id \in DOMAIN jobs, req \in Requests : FetchExecute(id, req)
    \/ \E i \in DOMAIN inflight, resp \in Responses : FetchPortReturns(i, resp)
    \/ \E i \in DOMAIN inflight, e \in PortErrors : FetchPortRaises(i, e)
    \/ \E id \in DOMAIN jobs, inp \in TransformInputs : TransformExecute(id, inp[1], inp[2])
    \/ \E i \in DOMAIN inflight, d \in TransformOutputs : TransformPortReturns(i, d)
    \/ \E i \in DOMAIN inflight, e \in PortErrors : TransformPortRaises(i, e)
    \/ \E id \in DOMAIN jobs, inp \in DeliverInputs : DeliverExecute(id, inp[1], inp[2])
    \/ \E i \in DOMAIN inflight : DeliverPortReturns(i)
    \/ \E i \in DOMAIN inflight, e \in PortErrors : DeliverPortRaises(i, e)

Spec == Init /\ [][Next]_vars

(***************************************************************************)
(* SpecFlow: one logical flow.  The job is mutated only through the use     *)
(* cases, and a use case is started only when no other execution is         *)
(* pending.                                                                 *)
(***************************************************************************)

FlowNext ==
    \/ Tick
    \/ inflight = <<>> /\ \E id \in DOMAIN jobs, req \in Requests : FetchExecute(id, req)
    \/ \E i \in DOMAIN inflight, resp \in Responses : FetchPortReturns(i, resp)
    \/ \E i \in DOMAIN inflight, e \in PortErrors : FetchPortRaises(i, e)
    \/ inflight = <<>> /\ \E id \in DOMAIN jobs, inp \in TransformInputs :
            TransformExecute(id, inp[1], inp[2])
    \/ \E i \in DOMAIN inflight, d \in TransformOutputs : TransformPortReturns(i, d)
    \/ \E i \in DOMAIN inflight, e \in PortErrors : TransformPortRaises(i, e)
    \/ inflight = <<>> /\ \E id \in DOMAIN jobs, inp \in DeliverInputs :
            DeliverExecute(id, inp[1], inp[2])
    \/ \E i \in DOMAIN inflight : DeliverPortReturns(i)
    \/ \E i \in DOMAIN inflight, e \in PortErrors : DeliverPortRaises(i, e)

SpecFlow == Init /\ [][FlowNext]_vars

(***************************************************************************)
(* SpecUseCases: the job is mutated only through the use cases, and their   *)
(* executions overlap freely at their awaits (asyncio tasks sharing a job). *)
(***************************************************************************)

UseCasesNext ==
    \/ Tick
    \/ \E id \in DOMAIN jobs, req \in Requests : FetchExecute(id, req)
    \/ \E i \in DOMAIN inflight, resp \in Responses : FetchPortReturns(i, resp)
    \/ \E i \in DOMAIN inflight, e \in PortErrors : FetchPortRaises(i, e)
    \/ \E id \in DOMAIN jobs, inp \in TransformInputs : TransformExecute(id, inp[1], inp[2])
    \/ \E i \in DOMAIN inflight, d \in TransformOutputs : TransformPortReturns(i, d)
    \/ \E i \in DOMAIN inflight, e \in PortErrors : TransformPortRaises(i, e)
    \/ \E id \in DOMAIN jobs, inp \in DeliverInputs : DeliverExecute(id, inp[1], inp[2])
    \/ \E i \in DOMAIN inflight : DeliverPortReturns(i)
    \/ \E i \in DOMAIN inflight, e \in PortErrors : DeliverPortRaises(i, e)

SpecUseCases == Init /\ [][UseCasesNext]_vars

(***************************************************************************)
(* SpecPipeline: the whole pipeline, driven as the integration test drives  *)
(* it: fetch, then transform on the data of the fetched response, then      *)
(* deliver of the transformed document.  A stage is started only when the   *)
(* previous one has returned; a port that raises ends the run.              *)
(***************************************************************************)

RuleLists == { inp[2] : inp \in TransformInputs }

Destinations == { inp[2] : inp \in DeliverInputs }

PipelineFetch ==
    /\ last.op = "init"
    /\ \E id \in DOMAIN jobs, req \in Requests : FetchExecute(id, req)

PipelineTransform ==
    /\ last.op = "fetch"
    /\ last.outcome = "returned"
    /\ \E rules \in RuleLists : TransformExecute(last.job, last.value[1].data, rules)

PipelineDeliver ==
    /\ last.op = "transform"
    /\ last.outcome = "returned"
    /\ \E dest \in Destinations : DeliverExecute(last.job, last.value[1], dest)

PipelineNext ==
    \/ Tick
    \/ PipelineFetch
    \/ \E i \in DOMAIN inflight, resp \in Responses : FetchPortReturns(i, resp)
    \/ \E i \in DOMAIN inflight, e \in PortErrors : FetchPortRaises(i, e)
    \/ PipelineTransform
    \/ \E i \in DOMAIN inflight, d \in TransformOutputs : TransformPortReturns(i, d)
    \/ \E i \in DOMAIN inflight, e \in PortErrors : TransformPortRaises(i, e)
    \/ PipelineDeliver
    \/ \E i \in DOMAIN inflight : DeliverPortReturns(i)
    \/ \E i \in DOMAIN inflight, e \in PortErrors : DeliverPortRaises(i, e)

SpecPipeline == Init /\ [][PipelineNext]_vars

(***************************************************************************)
(* SpecTwoJobs: two jobs of two customers run through the same use cases    *)
(* and ports; their executions overlap at the awaits, each job being in the *)
(* hands of one execution at a time.                                        *)
(***************************************************************************)

InitTwoJobs ==
    /\ now = 0
    /\ jobs = ("job-1" :> TransformationJob("job-1", "customer1", "config1", 0))
                @@ ("job-2" :> TransformationJob("job-2", "customer2", "config2", 0))
    /\ inflight = <<>>
    /\ portCalls = [id \in {"job-1", "job-2"} |-> NoCalls]
    /\ portResults = [id \in {"job-1", "job-2"} |-> NoCalls]
    /\ http = NoHttpCall
    /\ engine = NoEngineCall
    /\ last = Step("init", None, <<>>, None, "returned", None, None, None, None)

\* No execution is under way on the job.
Idle(id) == \A i \in DOMAIN inflight : inflight[i].job # id

TwoJobsNext ==
    \/ Tick
    \/ \E id \in DOMAIN jobs, req \in Requests : Idle(id) /\ FetchExecute(id, req)
    \/ \E i \in DOMAIN inflight, resp \in Responses : FetchPortReturns(i, resp)
    \/ \E i \in DOMAIN inflight, e \in PortErrors : FetchPortRaises(i, e)
    \/ \E id \in DOMAIN jobs, inp \in TransformInputs :
            Idle(id) /\ TransformExecute(id, inp[1], inp[2])
    \/ \E i \in DOMAIN inflight, d \in TransformOutputs : TransformPortReturns(i, d)
    \/ \E i \in DOMAIN inflight, e \in PortErrors : TransformPortRaises(i, e)
    \/ \E id \in DOMAIN jobs, inp \in DeliverInputs :
            Idle(id) /\ DeliverExecute(id, inp[1], inp[2])
    \/ \E i \in DOMAIN inflight : DeliverPortReturns(i)
    \/ \E i \in DOMAIN inflight, e \in PortErrors : DeliverPortRaises(i, e)

SpecTwoJobs == InitTwoJobs /\ [][TwoJobsNext]_vars

(***************************************************************************)
(* The HTTP adapters: HttpSourceAdapter.fetch and                           *)
(* HttpDestinationAdapter.deliver, each a loop of at most max_retries        *)
(* attempts with a sleep of 2**attempt seconds after a failed attempt that   *)
(* is not the last.                                                          *)
(***************************************************************************)

\* max_retries ranges over -1 .. MaxRetries: the constructors take any int.
MaxRetries == 3

RetryCounts == -1 .. MaxRetries

\* str.upper() on the method names in use.
upper(s) ==
    CASE s = "get" -> "GET"
      [] s = "post" -> "POST"
      [] s = "put" -> "PUT"
      [] s = "delete" -> "DELETE"
      [] s = "patch" -> "PATCH"
      [] OTHER -> s

\* The requests handed to fetch: those of the use cases, one whose method
\* _make_request does not know, and a DELETE whose descriptor has a body.
HttpRequests ==
    Requests \cup
    { [url |-> "https://api.example.com/data", method |-> "patch",
       headers |-> <<>>, params |-> <<>>, body |-> None, timeout |-> 30],
      [url |-> "https://api.example.com/data", method |-> "delete",
       headers |-> <<>>, params |-> <<>>,
       body |-> Some([query |-> "test"]), timeout |-> 30] }

\* What comes back for one request: a response (json is the decoded body when
\* the body parses, elapsed the seconds the round trip took) or an exception of
\* the transport.
HttpAnswers ==
    { [kind |-> "response",
       value |-> [status_code |-> 200, json |-> Some(UsersDocument), text |-> "{\"users\": []}",
                  headers |-> <<>>, elapsed |-> 1]],
      [kind |-> "response",
       value |-> [status_code |-> 200, json |-> None, text |-> "plain text",
                  headers |-> <<>>, elapsed |-> 1]],
      [kind |-> "response",
       value |-> [status_code |-> 404, json |-> None, text |-> "Not Found",
                  headers |-> <<>>, elapsed |-> 1]],
      [kind |-> "response",
       value |-> [status_code |-> 503, json |-> None, text |-> "Service Unavailable",
                  headers |-> <<>>, elapsed |-> 1]],
      [kind |-> "raised", value |-> [type |-> "ReadTimeout", args |-> <<"timed out">>]],
      [kind |-> "raised", value |-> [type |-> "ConnectError", args |-> <<"connection refused">>]] }

\* The subclasses of httpx.TimeoutException.
TimeoutExceptions ==
    {"TimeoutException", "ConnectTimeout", "ReadTimeout", "WriteTimeout", "PoolTimeout"}

HTTPStatusError(response) ==
    [type |-> "HTTPStatusError",
     args |-> <<"HTTP status " \o ToString(response.status_code)>>,
     status_code |-> response.status_code]

\* response.raise_for_status(): the exception it raises on a 4xx / 5xx status.
raise_for_status(response) ==
    IF response.status_code >= 400 THEN Some(HTTPStatusError(response)) ELSE None

\* raise SourceFetchError(...) from e
SourceFetchError(msg, e) == [type |-> "SourceFetchError", args |-> <<msg>>, cause |-> Some(e)]

\* raise DeliveryError(...) from e
DeliveryError(msg, e) == [type |-> "DeliveryError", args |-> <<msg>>, cause |-> Some(e)]

\* The adapter objects.
HttpSourceAdapter(max_retries) == [adapter |-> "source", max_retries |-> max_retries]

HttpDestinationAdapter(max_retries) == [adapter |-> "destination", max_retries |-> max_retries]

\* A call of fetch or deliver entering its loop: range(max_retries) is empty
\* when max_retries <= 0, and the call then falls off the end and returns None.
call_enter(self, request, data) ==
    [adapter |-> self.adapter, max_retries |-> self.max_retries,
     request |-> request, data |-> data, attempt |-> 0, events |-> <<>>,
     pc |-> IF self.max_retries > 0 THEN "attempt" ELSE "done",
     result |-> IF self.max_retries > 0 THEN None
                ELSE Some([kind |-> "returned", value |-> None])]

\* Mutant: a method that is none of the four is sent as it is.
make_request_sends_any_method(request, answer) ==
    LET method == upper(request.method)
        request_kwargs == [url |-> request.url, headers |-> request.headers,
                           params |-> request.params, timeout |-> request.timeout]
    IN  IF method \in {"POST", "PUT"}
        THEN [sent |-> Some([method |-> method, kwargs |-> request_kwargs,
                             json |-> request.body]),
              answer |-> answer]
        ELSE [sent |-> Some([method |-> method, kwargs |-> request_kwargs, json |-> None]),
              answer |-> answer]

\* _make_request: the request that goes out and what comes back for it, or the
\* ValueError for a method that is none of GET, POST, PUT, DELETE.
make_request(request, answer) ==
    LET method == upper(request.method)
        request_kwargs == [url |-> request.url, headers |-> request.headers,
                           params |-> request.params, timeout |-> request.timeout]
    IN  IF method \in {"GET", "DELETE"}
        THEN [sent |-> Some([method |-> method, kwargs |-> request_kwargs, json |-> None]),
              answer |-> answer]
        ELSE IF method \in {"POST", "PUT"}
        THEN [sent |-> Some([method |-> method, kwargs |-> request_kwargs,
                             json |-> request.body]),
              answer |-> answer]
        ELSE [sent |-> None,
              answer |-> [kind |-> "raised",
                          value |-> ValueError("Unsupported HTTP method: " \o method)]]

\* client.post(url=..., json=data, headers=..., params=..., timeout=...)
client_post(destination, data, answer) ==
    [sent |-> Some([method |-> "POST",
                    kwargs |-> [url |-> destination.url, headers |-> destination.headers,
                                params |-> destination.params,
                                timeout |-> destination.timeout],
                    json |-> Some(data)]),
     answer |-> answer]

\* The exception that ends an attempt, if one does.
attempt_failure(answer) ==
    IF answer.kind = "raised" THEN Some(answer.value) ELSE raise_for_status(answer.value)

\* The message of the except clause that catches e in fetch.
fetch_error_message(e) ==
    IF e.type = "HTTPStatusError"
    THEN "HTTP error " \o ToString(e.status_code) \o ": " \o str(e)
    ELSE IF e.type \in TimeoutExceptions
    THEN "Request timeout: " \o str(e)
    ELSE "Unexpected error: " \o str(e)

\* The message of the except clause that catches e in deliver.
deliver_error_message(e) ==
    IF e.type = "HTTPStatusError"
    THEN "Failed to deliver data: HTTP " \o ToString(e.status_code)
    ELSE IF e.type \in TimeoutExceptions
    THEN "Delivery timeout: " \o str(e)
    ELSE "Unexpected delivery error: " \o str(e)

\* What fetch returns for a response that passed raise_for_status.
fetch_result(response) ==
    [status_code |-> response.status_code,
     data |-> IF response.json # None THEN response.json[1]
              ELSE [raw_content |-> response.text],
     headers |-> response.headers,
     response_time_ms |-> response.elapsed * 1000]

\* Mutant: the first failed attempt raises, whatever max_retries is.
attempt_step_raises_at_once(self, made, value, error) ==
    LET failure == attempt_failure(made.answer)
        event == [kind |-> "attempt", index |-> self.attempt, sent |-> made.sent,
                  answer |-> made.answer, failure |-> failure]
        logged == [self EXCEPT !.events = Append(@, event)]
    IN  IF failure = None
        THEN [logged EXCEPT !.pc = "done",
                            !.result = Some([kind |-> "returned", value |-> value])]
        ELSE [logged EXCEPT !.pc = "done",
                            !.result = Some([kind |-> "raised", value |-> Some(error)])]

\* Mutant: the backoff wait is also taken after the last attempt, before the
\* raise.
attempt_step_waits_before_raising(self, made, value, error) ==
    LET failure == attempt_failure(made.answer)
        event == [kind |-> "attempt", index |-> self.attempt, sent |-> made.sent,
                  answer |-> made.answer, failure |-> failure]
        logged == [self EXCEPT !.events = Append(@, event)]
    IN  IF failure = None
        THEN [logged EXCEPT !.pc = "done",
                            !.result = Some([kind |-> "returned", value |-> value])]
        ELSE IF self.attempt = self.max_retries - 1
        THEN [logged EXCEPT !.events = Append(@, [kind |-> "sleep",
                                                  seconds |-> 2 ^ self.attempt]),
                            !.pc = "done",
                            !.result = Some([kind |-> "raised", value |-> Some(error)])]
        ELSE [logged EXCEPT !.pc = "sleep"]

\* One iteration of the loop, from the request to the return, the raise or the
\* sleep: made is the request and its answer, value what the call returns on
\* success, error the exception it raises when the last attempt failed.
attempt_step(self, made, value, error) ==
    LET failure == attempt_failure(made.answer)
        event == [kind |-> "attempt", index |-> self.attempt, sent |-> made.sent,
                  answer |-> made.answer, failure |-> failure]
        logged == [self EXCEPT !.events = Append(@, event)]
    IN  IF failure = None
        THEN [logged EXCEPT !.pc = "done",
                            !.result = Some([kind |-> "returned", value |-> value])]
        ELSE IF self.attempt = self.max_retries - 1
        THEN [logged EXCEPT !.pc = "done",
                            !.result = Some([kind |-> "raised", value |-> Some(error)])]
        ELSE [logged EXCEPT !.pc = "sleep"]

fetch_attempt(self, answer) ==
    LET made == make_request(self.request, answer)
        failure == attempt_failure(made.answer)
    IN  attempt_step(self, made,
                     IF failure = None THEN Some(fetch_result(made.answer.value)) ELSE None,
                     IF failure = None THEN None
                     ELSE SourceFetchError(fetch_error_message(failure[1]), failure[1]))

\* Mutant: deliver gives up at the first timeout.
deliver_attempt_timeout_final(self, answer) ==
    LET made == client_post(self.request, self.data[1], answer)
        failure == attempt_failure(made.answer)
        r == attempt_step(self, made, None,
                          IF failure = None THEN None
                          ELSE DeliveryError(deliver_error_message(failure[1]), failure[1]))
    IN  IF failure # None /\ failure[1].type \in TimeoutExceptions
        THEN [r EXCEPT !.pc = "done",
                       !.result = Some([kind |-> "raised",
                                        value |-> Some(DeliveryError(
                                            deliver_error_message(failure[1]), failure[1]))])]
        ELSE r

deliver_attempt(self, answer) ==
    LET made == client_post(self.request, self.data[1], answer)
        failure == attempt_failure(made.answer)
    IN  attempt_step(self, made, None,
                     IF failure = None THEN None
                     ELSE DeliveryError(deliver_error_message(failure[1]), failure[1]))

\* Mutant: the wait does not move on to the next attempt index.
sleep_same_attempt(self) ==
    [self EXCEPT !.events = Append(@, [kind |-> "sleep", seconds |-> 2 ^ self.attempt]),
                 !.pc = "attempt"]

\* Mutant: the backoff grows linearly, 2 * attempt.
sleep_linear(self) ==
    [self EXCEPT !.events = Append(@, [kind |-> "sleep", seconds |-> 2 * self.attempt]),
                 !.attempt = @ + 1,
                 !.pc = "attempt"]

\* await asyncio.sleep(2**attempt), then the next iteration.
sleep(self) ==
    [self EXCEPT !.events = Append(@, [kind |-> "sleep", seconds |-> 2 ^ self.attempt]),
                 !.attempt = @ + 1,
                 !.pc = "attempt"]

HttpStep(self) ==
    /\ http' = self
    /\ UNCHANGED pipelineVars
    /\ UNCHANGED engine

HttpFetchCall(max_retries, request) ==
    /\ http.pc = "none"
    /\ HttpStep(call_enter(HttpSourceAdapter(max_retries), request, None))

HttpFetchAttempt(answer) ==
    /\ http.adapter = "source"
    /\ http.pc = "attempt"
    /\ HttpStep(fetch_attempt(http, answer))

HttpFetchSleep ==
    /\ http.adapter = "source"
    /\ http.pc = "sleep"
    /\ HttpStep(sleep(http))

HttpDeliverCall(max_retries, destination, data) ==
    /\ http.pc = "none"
    /\ HttpStep(call_enter(HttpDestinationAdapter(max_retries), destination, Some(data)))

HttpDeliverAttempt(answer) ==
    /\ http.adapter = "destination"
    /\ http.pc = "attempt"
    /\ HttpStep(deliver_attempt(http, answer))

HttpDeliverSleep ==
    /\ http.adapter = "destination"
    /\ http.pc = "sleep"
    /\ HttpStep(sleep(http))

NetNext ==
    \/ \E m \in RetryCounts, req \in HttpRequests : HttpFetchCall(m, req)
    \/ \E a \in HttpAnswers : HttpFetchAttempt(a)
    \/ HttpFetchSleep
    \/ \E m \in RetryCounts, inp \in DeliverInputs : HttpDeliverCall(m, inp[2], inp[1])
    \/ \E a \in HttpAnswers : HttpDeliverAttempt(a)
    \/ HttpDeliverSleep

SpecNet == Init /\ [][NetNext]_vars

\* SpecNet where every HTTP attempt is answered and every asyncio.sleep ends:
\* the event loop resumes the coroutine when its await completes.
SpecNetLive ==
    /\ SpecNet
    /\ WF_vars(\E a \in HttpAnswers : HttpFetchAttempt(a))
    /\ WF_vars(HttpFetchSleep)
    /\ WF_vars(\E a \in HttpAnswers : HttpDeliverAttempt(a))
    /\ WF_vars(HttpDeliverSleep)

(***************************************************************************)
(* The transformation engine.  Python values are tagged: [none |-> TRUE],   *)
(* [int |-> n], [str |-> s], [dict |-> d]; a string is the sequence of its   *)
(* characters, so that split, upper and join are computed; a dict is a       *)
(* function of its keys.  The fields of a rule are plain strings, an absent  *)
(* field being a key the rule does not have.                                 *)
(***************************************************************************)

\* The rule lists handed to transform have at most MaxRules rules.
MaxRules == 2

\* The source paths handed to _extract_value have at most MaxPathLen characters.
MaxPathLen == 3

PyNone == [none |-> TRUE]

PyInt(n) == [int |-> n]

PyStr(s) == [str |-> s]

PyDict(d) == [dict |-> d]

PyBool(b) == [bool |-> b]

PyList(l) == [list |-> l]

EmptyDict == PyDict(<<>>)

isinstance_dict(v) == "dict" \in DOMAIN v

\* d.get(key, default) on a mapping.
Get(d, key, default) == IF key \in DOMAIN d THEN d[key] ELSE default

\* The characters as one text, for the messages.
RECURSIVE Text(_)
Text(s) == IF s = <<>> THEN "" ELSE s[1] \o Text(Tail(s))

Digits == <<"0", "1", "2", "3", "4", "5", "6", "7", "8", "9">>

RECURSIVE Decimal(_)
Decimal(n) ==
    IF n < 0 THEN <<"-">> \o Decimal(0 - n)
    ELSE IF n < 10 THEN <<Digits[n + 1]>>
    ELSE Decimal(n \div 10) \o <<Digits[(n % 10) + 1]>>

\* separator.join(values)
RECURSIVE join(_, _)
join(separator, values) ==
    IF values = <<>> THEN <<>>
    ELSE IF Len(values) = 1 THEN values[1]
    ELSE values[1] \o separator \o join(separator, Tail(values))

RECURSIVE pystr(_)
RECURSIVE repr(_)

\* repr(value): a str (without quotes or backslashes in it) is quoted.
repr(value) ==
    IF "str" \in DOMAIN value THEN <<"'">> \o value.str \o <<"'">> ELSE pystr(value)

\* str(value) of None, a bool, an int, a str, a list, or a dict of at most one
\* entry (the text of a longer dict lists the entries in insertion order,
\* which the documents here do not carry).
pystr(value) ==
    CASE "none" \in DOMAIN value -> <<"N", "o", "n", "e">>
      [] "bool" \in DOMAIN value ->
            IF value.bool THEN <<"T", "r", "u", "e">> ELSE <<"F", "a", "l", "s", "e">>
      [] "int" \in DOMAIN value -> Decimal(value.int)
      [] "str" \in DOMAIN value -> value.str
      [] "list" \in DOMAIN value ->
            <<"[">> \o join(<<",", " ">>, [i \in DOMAIN value.list |-> repr(value.list[i])])
                   \o <<"]">>
      [] "dict" \in DOMAIN value /\ Cardinality(DOMAIN value.dict) <= 1 ->
            IF DOMAIN value.dict = {} THEN <<"{", "}">>
            ELSE LET key == CHOOSE k \in DOMAIN value.dict : TRUE
                 IN  <<"{">> \o repr(PyStr(key)) \o <<":", " ">> \o repr(value.dict[key])
                            \o <<"}">>

LowerLetters ==
    <<"a", "b", "c", "d", "e", "f", "g", "h", "i", "j", "k", "l", "m",
      "n", "o", "p", "q", "r", "s", "t", "u", "v", "w", "x", "y", "z">>

UpperLetters ==
    <<"A", "B", "C", "D", "E", "F", "G", "H", "I", "J", "K", "L", "M",
      "N", "O", "P", "Q", "R", "S", "T", "U", "V", "W", "X", "Y", "Z">>

\* c as spelled in the alphabet `to` when it is a letter of the alphabet `from`.
Recase(c, from, to) ==
    IF \E i \in DOMAIN from : from[i] = c
    THEN to[CHOOSE i \in DOMAIN from : from[i] = c]
    ELSE c

\* str.upper() and str.lower()
upper_chars(s) == [i \in DOMAIN s |-> Recase(s[i], LowerLetters, UpperLetters)]

lower_chars(s) == [i \in DOMAIN s |-> Recase(s[i], UpperLetters, LowerLetters)]

\* field_path.split(".")
RECURSIVE split(_)
split(s) ==
    IF \A i \in DOMAIN s : s[i] # "."
    THEN <<s>>
    ELSE LET i == CHOOSE k \in DOMAIN s : s[k] = "." /\ \A j \in 1 .. k - 1 : s[j] # "."
         IN  <<SubSeq(s, 1, i - 1)>> \o split(SubSeq(s, i + 1, Len(s)))

\* The built-in operations, each returning its value.
direct_mapping(value, params) == value

uppercase(value, params) ==
    IF value = PyNone THEN PyStr(<<>>) ELSE PyStr(upper_chars(pystr(value)))

lowercase(value, params) ==
    IF value = PyNone THEN PyStr(<<>>) ELSE PyStr(lower_chars(pystr(value)))

\* Mutant: every falsy value is replaced by the default.
default_value_falsy(value, params) ==
    IF value \in {PyNone, PyStr(<<>>), PyInt(0), PyBool(FALSE), PyList(<<>>), EmptyDict}
    THEN Get(params, "default", PyNone)
    ELSE value

default_value(value, params) ==
    IF value = PyNone \/ value = PyStr(<<>>) THEN Get(params, "default", PyNone) ELSE value

\* The value of a digit character, and of a run of digits.
DigitValue(c) == (CHOOSE i \in DOMAIN Digits : Digits[i] = c) - 1

IsDigits(s) == \A i \in DOMAIN s : \E k \in DOMAIN Digits : Digits[k] = s[i]

RECURSIVE Number(_)
Number(s) ==
    IF s = <<>> THEN 0
    ELSE Number(SubSeq(s, 1, Len(s) - 1)) * 10 + DigitValue(s[Len(s)])

\* n in decimal, padded with zeros to the given width.
RECURSIVE Padded(_, _)
Padded(n, width) ==
    IF Len(Decimal(n)) >= width THEN Decimal(n)
    ELSE <<"0">> \o Padded(n, width - 1) 

\* The days of month m of year Y.
DaysInMonth(Y, m) ==
    IF m = 2
    THEN (IF (Y % 4 = 0 /\ Y % 100 # 0) \/ Y % 400 = 0 THEN 29 ELSE 28)
    ELSE IF m \in {4, 6, 9, 11} THEN 30 ELSE 31

\* How many characters the directive %Y, %m or %d may take at the start of
\* s, the longest first: four digits for %Y, a month 1..12 or a day 1..31 in
\* two digits or in one for %m and %d.
DirectiveWidths(directive, s) ==
    LET two == IF Len(s) >= 2 /\ IsDigits(SubSeq(s, 1, 2)) THEN Number(SubSeq(s, 1, 2)) ELSE 0
        one == IF Len(s) >= 1 /\ IsDigits(SubSeq(s, 1, 1)) THEN Number(SubSeq(s, 1, 1)) ELSE 0
        short == IF one >= 1 THEN <<1>> ELSE <<>>
    IN  CASE directive = "Y" ->
                IF Len(s) >= 4 /\ IsDigits(SubSeq(s, 1, 4)) THEN <<4>> ELSE <<>>
          [] directive = "m" -> (IF two \in 1 .. 12 THEN <<2>> ELSE <<>>) \o short
          [] directive = "d" -> (IF two \in 1 .. 31 THEN <<2>> ELSE <<>>) \o short
          [] OTHER -> <<>>

\* The match of the format at the start of s, as the regular expression built
\* by strptime finds it: the fields read and the rest of s, or None.
RECURSIVE strptime_match(_, _, _)
strptime_match(s, fmt, found) ==
    IF fmt = <<>> THEN Some([found |-> found, rest |-> s])
    ELSE IF fmt[1] = "%" /\ Len(fmt) >= 2
    THEN LET widths == DirectiveWidths(fmt[2], s)
             taking(w) == strptime_match(SubSeq(s, w + 1, Len(s)), SubSeq(fmt, 3, Len(fmt)),
                                         [found EXCEPT ![fmt[2]] = Number(SubSeq(s, 1, w))])
         IN  IF widths = <<>> THEN None
             ELSE IF taking(widths[1]) # None \/ Len(widths) = 1 THEN taking(widths[1])
             ELSE taking(widths[2])
    ELSE IF s # <<>> /\ s[1] = fmt[1]
    THEN strptime_match(Tail(s), Tail(fmt), found)
    ELSE None

\* datetime.strptime(s, fmt) for formats made of %Y, %m, %d and literal
\* characters: the date, or the ValueError.
strptime(s, fmt) ==
    LET m == strptime_match(s, fmt, [Y |-> 1900, m |-> 1, d |-> 1])
    IN  IF m = None
        THEN [kind |-> "raised",
              value |-> ValueError("time data '" \o Text(s) \o "' does not match format '"
                                       \o Text(fmt) \o "'")]
        ELSE IF m[1].rest # <<>>
        THEN [kind |-> "raised",
              value |-> ValueError("unconverted data remains: " \o Text(m[1].rest))]
        ELSE IF m[1].found.d > DaysInMonth(m[1].found.Y, m[1].found.m)
        THEN [kind |-> "raised", value |-> ValueError("day is out of range for month")]
        ELSE [kind |-> "returned", value |-> m[1].found]

\* date.strftime(fmt) for the same formats.
RECURSIVE strftime(_, _)
strftime(date, fmt) ==
    IF fmt = <<>> THEN <<>>
    ELSE IF fmt[1] = "%" /\ Len(fmt) >= 2 /\ fmt[2] \in {"Y", "m", "d"}
    THEN Padded(date[fmt[2]], IF fmt[2] = "Y" THEN 4 ELSE 2)
            \o strftime(date, SubSeq(fmt, 3, Len(fmt)))
    ELSE <<fmt[1]>> \o strftime(date, Tail(fmt))

\* bool(value)
truthy(value) ==
    CASE "none" \in DOMAIN value -> FALSE
      [] "bool" \in DOMAIN value -> value.bool
      [] "int" \in DOMAIN value -> value.int # 0
      [] "str" \in DOMAIN value -> value.str # <<>>
      [] "list" \in DOMAIN value -> value.list # <<>>
      [] "dict" \in DOMAIN value -> DOMAIN value.dict # {}

\* concatenate.transform
concatenate(value, params) ==
    LET fields == Get(params, "fields", PyNone)
        separator == Get(params, "separator", PyStr(<<" ">>))
    IN  IF truthy(fields) /\ isinstance_dict(value)
        THEN LET values == [i \in DOMAIN fields.list |->
                               pystr(Get(value.dict, fields.list[i], PyStr(<<>>)))]
             IN  PyStr(join(separator.str, values))
        ELSE PyStr(pystr(value))

\* Mutant: a value that does not parse is replaced by the empty text.
format_date_lenient(value, params) ==
    LET input_format == Get(params, "input_format", PyStr(<<"%", "Y", "-", "%", "m", "-", "%", "d">>))
        output_format == Get(params, "output_format", PyStr(<<"%", "d", "/", "%", "m", "/", "%", "Y">>))
    IN  IF ~truthy(value)
        THEN [kind |-> "returned", value |-> PyStr(<<>>)]
        ELSE LET date_obj == strptime(pystr(value), input_format.str)
             IN  IF date_obj.kind = "raised"
                 THEN [kind |-> "returned", value |-> PyStr(<<>>)]
                 ELSE [kind |-> "returned",
                       value |-> PyStr(strftime(date_obj.value, output_format.str))]

\* format_date.transform: the text it returns or the ValueError of strptime.
format_date(value, params) ==
    LET input_format == Get(params, "input_format", PyStr(<<"%", "Y", "-", "%", "m", "-", "%", "d">>))
        output_format == Get(params, "output_format", PyStr(<<"%", "d", "/", "%", "m", "/", "%", "Y">>))
        formatted(date_obj) ==
            IF date_obj.kind = "raised" THEN date_obj
            ELSE [kind |-> "returned",
                  value |-> PyStr(strftime(date_obj.value, output_format.str))]
    IN  IF ~truthy(value)
        THEN [kind |-> "returned", value |-> PyStr(<<>>)]
        ELSE formatted(strptime(pystr(value), input_format.str))

\* A callable a caller registers: lambda value, **params: [value, params.get("default")]
pair(value, params) == PyList(<<value, Get(params, "default", PyNone)>>)

\* _register_builtin_transformations: the registry of a new engine.
BuiltinTransformations ==
    [direct |-> "direct_mapping", format_date |-> "format_date",
     concatenate |-> "concatenate", uppercase |-> "uppercase",
     lowercase |-> "lowercase", default_value |-> "default_value"]

\* transform_func(value, **transform_params)
transform_func(func, value, params) ==
    CASE func = "direct_mapping" -> [kind |-> "returned", value |-> direct_mapping(value, params)]
      [] func = "uppercase" -> [kind |-> "returned", value |-> uppercase(value, params)]
      [] func = "lowercase" -> [kind |-> "returned", value |-> lowercase(value, params)]
      [] func = "default_value" -> [kind |-> "returned", value |-> default_value(value, params)]
      [] func = "format_date" -> format_date(value, params)
      [] func = "concatenate" -> [kind |-> "returned", value |-> concatenate(value, params)]
      [] func = "pair" -> [kind |-> "returned", value |-> pair(value, params)]

TransformationError(msg, cause) ==
    [type |-> "TransformationError", args |-> <<msg>>, cause |-> cause]

\* _extract_value: the walk along the keys of the path.
RECURSIVE extract_keys(_, _)
extract_keys(value, keys) ==
    IF keys = <<>> THEN value
    ELSE IF isinstance_dict(value)
    THEN extract_keys(Get(value.dict, keys[1], PyNone), Tail(keys))
    ELSE PyNone

\* Mutant: the whole path is looked up as one key.
extract_value_no_split(data, field_path) ==
    IF field_path = <<>> THEN data ELSE extract_keys(data, <<field_path>>)

extract_value(data, field_path) ==
    IF field_path = <<>> THEN data ELSE extract_keys(data, split(field_path))

\* Mutant: a rule naming an unknown operation is skipped.
transform_rule_skips_unknown(registry, source_data, rule, transformed_data) ==
    LET target_field == Get(rule, "target_field", None)
        source_field == Get(rule, "source_field", None)
        transform_type == Get(rule, "transform", "direct")
        transform_params == Get(rule, "params", <<>>)
    IN  IF target_field = <<>>
        THEN [kind |-> "raised", call |-> None,
              value |-> TransformationError("Missing target_field in rule", None)]
        ELSE IF transform_type \notin DOMAIN registry
        THEN [kind |-> "returned", call |-> None, value |-> transformed_data]
        ELSE LET value == extract_value(source_data, source_field)
                 r == transform_func(registry[transform_type], value, transform_params)
                 call == Some([func |-> registry[transform_type], value |-> value,
                               params |-> transform_params])
             IN  IF r.kind = "raised"
                 THEN [kind |-> "raised", call |-> call,
                       value |-> TransformationError(
                                     "Failed to transform field " \o Text(target_field)
                                        \o ": " \o str(r.value),
                                     Some(r.value))]
                 ELSE [kind |-> "returned", call |-> call,
                       value |-> PyDict((target_field :> r.value) @@ transformed_data.dict)]

\* The body of the loop of transform for one rule: the target document with
\* the rule's result written under the key target_field, or the
\* TransformationError the rule raises; call is the call of the operation the
\* rule made, if it got that far.
transform_rule(registry, source_data, rule, transformed_data) ==
    LET target_field == Get(rule, "target_field", None)
        source_field == Get(rule, "source_field", None)
        transform_type == Get(rule, "transform", "direct")
        transform_params == Get(rule, "params", <<>>)
    IN  IF target_field = <<>>
        THEN [kind |-> "raised", call |-> None,
              value |-> TransformationError("Missing target_field in rule", None)]
        ELSE IF transform_type \notin DOMAIN registry
        THEN [kind |-> "raised", call |-> None,
              value |-> TransformationError(
                            "Unknown transformation type: " \o transform_type, None)]
        ELSE LET value == extract_value(source_data, source_field)
                 call == Some([func |-> registry[transform_type], value |-> value,
                               params |-> transform_params])
                 write(r) ==
                     IF r.kind = "raised"
                     THEN [kind |-> "raised", call |-> call,
                           value |-> TransformationError(
                                         "Failed to transform field " \o Text(target_field)
                                            \o ": " \o str(r.value),
                                         Some(r.value))]
                     ELSE [kind |-> "returned", call |-> call,
                           value |-> PyDict((target_field :> r.value)
                                               @@ transformed_data.dict)]
             IN  write(transform_func(registry[transform_type], value, transform_params))

\* Mutant: when a rule fails, the document built so far is returned.
RECURSIVE transform_rules_returns_partial(_, _, _, _, _)
transform_rules_returns_partial(registry, source_data, rules, transformed_data, calls) ==
    IF rules = <<>>
    THEN [kind |-> "returned", value |-> transformed_data, calls |-> calls]
    ELSE LET go_on(r) ==
                 IF r.kind = "raised"
                 THEN [kind |-> "returned", value |-> transformed_data,
                       calls |-> calls \o r.call]
                 ELSE transform_rules_returns_partial(registry, source_data, Tail(rules),
                                                      r.value, calls \o r.call)
         IN  go_on(transform_rule(registry, source_data, Head(rules), transformed_data))

\* Mutant: a rule never overwrites an entry an earlier rule has written.
RECURSIVE transform_rules_first_wins(_, _, _, _, _)
transform_rules_first_wins(registry, source_data, rules, transformed_data, calls) ==
    IF rules = <<>>
    THEN [kind |-> "returned", value |-> transformed_data, calls |-> calls]
    ELSE LET r == transform_rule(registry, source_data, Head(rules), transformed_data)
         IN  IF r.kind = "raised"
             THEN [kind |-> "raised", value |-> r.value, calls |-> calls \o r.call]
             ELSE transform_rules_first_wins(
                      registry, source_data, Tail(rules),
                      PyDict(transformed_data.dict @@ r.value.dict), calls \o r.call)

\* for rule in rules: ...  The outcome of the loop, with the calls of
\* operations it made, in order.
RECURSIVE transform_rules(_, _, _, _, _)
transform_rules(registry, source_data, rules, transformed_data, calls) ==
    IF rules = <<>>
    THEN [kind |-> "returned", value |-> transformed_data, calls |-> calls]
    ELSE LET go_on(r) ==
                 IF r.kind = "raised"
                 THEN [kind |-> "raised", value |-> r.value, calls |-> calls \o r.call]
                 ELSE transform_rules(registry, source_data, Tail(rules), r.value,
                                      calls \o r.call)
         IN  go_on(transform_rule(registry, source_data, Head(rules), transformed_data))

\* Mutant: the target document starts as a copy of the source document.
transform_from_source(self, source_data, rules) ==
    LET r == transform_rules(self.registry, source_data, rules, source_data, <<>>)
    IN  IF r.kind = "raised"
        THEN [kind |-> "raised",
              value |-> TransformationError("Transformation failed: " \o str(r.value),
                                            Some(r.value))]
        ELSE [kind |-> "returned", value |-> r.value]

\* TransformationEngine.transform: the document it returns or the
\* TransformationError it raises.
transform(self, source_data, rules) ==
    LET outcome(r) ==
            IF r.kind = "raised"
            THEN [kind |-> "raised",
                  value |-> TransformationError("Transformation failed: " \o str(r.value),
                                                Some(r.value))]
            ELSE [kind |-> "returned", value |-> r.value]
    IN  outcome(transform_rules(self.registry, source_data, rules, EmptyDict, <<>>))

\* The calls of operations a transform call makes.
transform_calls(self, source_data, rules) ==
    transform_rules(self.registry, source_data, rules, EmptyDict, <<>>).calls

\* TransformationEngine(); registered is the history of the
\* register_transformation calls on the instance.
TransformationEngine ==
    [pc |-> "idle", registry |-> BuiltinTransformations, registered |-> <<>>]

\* Mutant: a name that is registered already keeps its operation.
register_transformation_setdefault(self, name, func) ==
    [self EXCEPT !.registry = @ @@ (name :> func),
                 !.registered = Append(@, [name |-> name, func |-> func])]

\* register_transformation
register_transformation(self, name, func) ==
    [self EXCEPT !.registry = (name :> func) @@ @,
                 !.registered = Append(@, [name |-> name, func |-> func])]

\* The source documents: {"x": 5}, {"u": {"n": "John"}, "e": "", "t": "2024-01-15"}
\* and {}.
SourceDocuments ==
    { PyDict(<<"x">> :> PyInt(5)),
      PyDict((<<"u">> :> PyDict(<<"n">> :> PyStr(<<"J", "o", "h", "n">>)))
                @@ (<<"e">> :> PyStr(<<>>))
                @@ (<<"t">> :> PyStr(<<"2", "0", "2", "4", "-", "0", "1", "-", "1", "5">>))),
      EmptyDict }

\* The rules: nested and flat targets and sources, the built-in operations
\* (format_date on a date and on a name), a rule without target_field and one
\* naming an operation nobody registered.
EngineRules ==
    { [target_field |-> <<"a", ".", "b">>, source_field |-> <<"x">>],
      [target_field |-> <<"a">>, source_field |-> <<"u", ".", "n">>, transform |-> "uppercase"],
      [target_field |-> <<"a">>, source_field |-> <<"u", ".", "n">>, transform |-> "lowercase"],
      [target_field |-> <<"c">>, source_field |-> <<"e">>, transform |-> "default_value",
       params |-> [default |-> PyInt(0)]],
      [target_field |-> <<"c">>, source_field |-> <<"x", ".", "y">>, transform |-> "default_value"],
      [target_field |-> <<"d">>, source_field |-> <<"t">>, transform |-> "format_date"],
      [target_field |-> <<"d">>, source_field |-> <<"u", ".", "n">>, transform |-> "format_date"],
      [target_field |-> <<"d">>],
      [source_field |-> <<"x">>],
      [target_field |-> <<"c">>, source_field |-> <<"x">>, transform |-> "reverse"] }

RECURSIVE SeqsUpTo(_, _)
SeqsUpTo(S, n) ==
    IF n = 0 THEN { <<>> }
    ELSE LET shorter == SeqsUpTo(S, n - 1)
         IN  shorter \cup { Append(s, x) : s \in shorter, x \in S }

EngineRuleLists == SeqsUpTo(EngineRules, MaxRules)

\* The source paths: every string of at most MaxPathLen characters over
\* letters used as keys by the source documents and the dot.
FieldPaths == SeqsUpTo({"x", "u", "n", "."}, MaxPathLen)

EngineStep(self) ==
    /\ engine' = self
    /\ UNCHANGED pipelineVars
    /\ UNCHANGED http

EngineNew ==
    /\ engine.pc = "none"
    /\ EngineStep(TransformationEngine)

EngineTransform(source_data, rules) ==
    /\ engine.pc = "idle"
    /\ EngineStep([pc |-> "done", registry |-> engine.registry,
                   registered |-> engine.registered,
                   source_data |-> source_data, rules |-> rules,
                   result |-> transform(engine, source_data, rules),
                   calls |-> transform_calls(engine, source_data, rules)])

EngineExtractValue(data, field_path) ==
    /\ engine.pc = "idle"
    /\ EngineStep([pc |-> "extracted", registry |-> engine.registry,
                   data |-> data, field_path |-> field_path,
                   value |-> extract_value(data, field_path)])

EngineNext ==
    \/ EngineNew
    \/ \E d \in SourceDocuments, path \in FieldPaths : EngineExtractValue(d, path)
    \/ \E d \in SourceDocuments, rules \in EngineRuleLists : EngineTransform(d, rules)

SpecEngine == Init /\ [][EngineNext]_vars

\* At most MaxRegistrations operations are registered on an engine.
MaxRegistrations == 2

\* The registrations: a new name, a built-in name or the default name, with
\* the callable registered under it.
Registrations == {"reverse", "uppercase", "direct"} \X {"pair", "direct_mapping"}

\* Rules for an engine with registered operations: without an operation
\* name, naming a built-in, and naming "reverse" with and without params.
RegistryRules ==
    { [target_field |-> <<"a">>, source_field |-> <<"x">>],
      [target_field |-> <<"b">>, source_field |-> <<"u", ".", "n">>, transform |-> "uppercase"],
      [target_field |-> <<"c">>, source_field |-> <<"x">>, transform |-> "reverse",
       params |-> [default |-> PyInt(0)]],
      [target_field |-> <<"d">>, source_field |-> <<"e">>, transform |-> "reverse"] }

EngineRegister(name, func) ==
    /\ engine.pc = "idle"
    /\ Len(engine.registered) < MaxRegistrations
    /\ EngineStep(register_transformation(engine, name, func))

RegistryNext ==
    \/ EngineNew
    \/ \E r \in Registrations : EngineRegister(r[1], r[2])
    \/ \E d \in SourceDocuments, rules \in SeqsUpTo(RegistryRules, MaxRules) :
           EngineTransform(d, rules)

SpecRegistry == Init /\ [][RegistryNext]_vars

\* The fields list handed to concatenate names at most MaxFields fields.
MaxFields == 2

\* The calls of the built-in operations default_value, format_date and
\* concatenate: on None, texts (empty, a name, dates), numbers, booleans,
\* empty collections and mappings, with and without their parameters.  A
\* mapping of several entries is not handed to a call that takes its str().
OperationCalls ==
    LET John == <<"J", "o", "h", "n">>
        first == <<"f", "i", "r", "s", "t">>
        second == <<"l", "a", "s", "t">>
        values ==
            { PyNone, PyStr(<<>>), PyStr(John), PyInt(0), PyInt(5), PyBool(FALSE),
              PyBool(TRUE), PyList(<<>>), EmptyDict,
              PyStr(<<"2", "0", "2", "4", "-", "0", "1", "-", "1", "5">>),
              PyStr(<<"1", "5", "/", "0", "1", "/", "2", "0", "2", "4">>),
              PyStr(<<"2", "0", "2", "4", "-", "1", "3", "-", "0", "1">>),
              PyDict(first :> PyStr(John)),
              PyDict((first :> PyStr(John)) @@ (second :> PyStr(<<"D", "o", "e">>))),
              PyDict((first :> PyStr(John)) @@ (<<"n">> :> PyInt(5)) @@ (<<"z">> :> PyNone)) }
        printable == { v \in values : isinstance_dict(v) => Cardinality(DOMAIN v.dict) <= 1 }
        lists == { PyList(l) : l \in SeqsUpTo({first, second, <<"n">>, <<"z">>}, MaxFields) }
    IN  { [func |-> "default_value", value |-> v, params |-> p] :
              v \in values,
              p \in { <<>>, [default |-> PyStr(<<"D">>)], [default |-> PyInt(0)] } }
        \cup { [func |-> "format_date", value |-> v, params |-> p] :
                  v \in printable,
                  p \in { <<>>,
                          [input_format |-> PyStr(<<"%", "d", "/", "%", "m", "/", "%", "Y">>),
                           output_format |-> PyStr(<<"%", "Y", "-", "%", "m", "-", "%", "d">>)] } }
        \cup { [func |-> "concatenate", value |-> v, params |-> <<>>] : v \in printable }
        \cup { [func |-> "concatenate", value |-> v, params |-> p] :
                  v \in printable,
                  p \in { [fields |-> PyList(<<>>)],
                          [fields |-> PyList(<<>>), separator |-> PyStr(<<"-">>)] } }
        \cup { [func |-> "concatenate", value |-> v, params |-> p] :
                  v \in values,
                  p \in { [fields |-> l] : l \in lists \ {PyList(<<>>)} }
                        \cup { [fields |-> l, separator |-> PyStr(<<"-">>)] :
                                   l \in lists \ {PyList(<<>>)} } }

\* A call transform(value, **params) of a built-in operation.
OperationCall(func, value, params) ==
    /\ engine.pc = "none"
    /\ EngineStep([pc |-> "called", func |-> func, value |-> value, params |-> params,
                   result |-> transform_func(func, value, params)])

OperationsNext == \E c \in OperationCalls : OperationCall(c.func, c.value, c.params)

SpecOperations == Init /\ [][OperationsNext]_vars

\* Rules reformatting dates: of a date, of an empty text, of an absent value,
\* of a name, and of a date in another format than the rule's; and a rule
\* copying a value.
DateRules ==
    { [target_field |-> <<"d">>, source_field |-> <<"t">>, transform |-> "format_date"],
      [target_field |-> <<"d">>, source_field |-> <<"e">>, transform |-> "format_date"],
      [target_field |-> <<"c">>, source_field |-> <<"x", ".", "y">>, transform |-> "format_date"],
      [target_field |-> <<"d">>, source_field |-> <<"u", ".", "n">>, transform |-> "format_date"],
      [target_field |-> <<"c">>, source_field |-> <<"t">>, transform |-> "format_date",
       params |-> [input_format |-> PyStr(<<"%", "d", "/", "%", "m", "/", "%", "Y">>)]],
      [target_field |-> <<"a">>, source_field |-> <<"x">>] }

\* The transformation port of the use case is a TransformationEngine: what
\* its transform returns or raises resumes execute.
EnginePortAnswers(i) ==
    /\ inflight[i].uc = "transform"
    /\ LET r == transform(TransformationEngine, inflight[i].port_args[1],
                          inflight[i].port_args[2])
       IN  IF r.kind = "returned"
           THEN TransformPortReturns(i, r.value)
           ELSE TransformPortRaises(i, r.value)

\* The transform use case over the engine, on a job that was marked FETCHING.
EngineStageNext ==
    \/ Tick
    \/ last.op = "init" /\ \E id \in DOMAIN jobs : MarkAsFetching(id)
    \/ last.op = "mark_as_fetching" /\ \E d \in SourceDocuments,
                                           rules \in SeqsUpTo(DateRules, MaxRules) :
            TransformExecute(last.job, d, rules)
    \/ \E i \in DOMAIN inflight : EnginePortAnswers(i)

SpecEngineStage == Init /\ [][EngineStageNext]_vars

(***************************************************************************)
(* Vocabulary of the claims.  `last` describes the latest call step and     *)
(* jobs[last.job] is the job right after it: every step that touches a job  *)
(* rewrites `last`.                                                         *)
(***************************************************************************)

GuardedOps == {"mark_as_fetching", "mark_as_transforming", "mark_as_delivering"}

MethodOps == GuardedOps \cup {"mark_as_completed", "mark_as_failed"}

UseCaseOps == {"fetch", "transform", "deliver"}

Terminal == {"COMPLETED", "FAILED"}

\* PENDING -> FETCHING -> TRANSFORMING -> DELIVERING
ChainEdges ==
    { <<"PENDING", "FETCHING">>, <<"FETCHING", "TRANSFORMING">>,
      <<"TRANSFORMING", "DELIVERING">> }

\* The graph of section 4.1: the chain up to COMPLETED, and FAILED from every
\* non-terminal status.
GraphEdges ==
    ChainEdges \cup { <<"DELIVERING", "COMPLETED">> }
               \cup { <<x, "FAILED">> : x \in JobStatus \ Terminal }

\* The status a method asks for.
TargetOf ==
    [op \in MethodOps |->
        CASE op = "mark_as_fetching" -> "FETCHING"
          [] op = "mark_as_transforming" -> "TRANSFORMING"
          [] op = "mark_as_delivering" -> "DELIVERING"
          [] op = "mark_as_completed" -> "COMPLETED"
          [] op = "mark_as_failed" -> "FAILED"]

IsValueError(exc) == exc # None /\ exc[1].type = "ValueError"

\* The latest step ended an execute() whose port raised.
PortRaised ==
    /\ last.op \in UseCaseOps
    /\ last.port_result # None
    /\ last.port_result[1].kind = "raised"

\* The latest step ended an execute() whose port returned.
PortReturned ==
    /\ last.op \in UseCaseOps
    /\ last.port_result # None
    /\ last.port_result[1].kind = "returned"

(***************************************************************************)
(* C1                                                                      *)
(***************************************************************************)

\* C1 as stated: every change of status is an edge of the graph PENDING ->
\* FETCHING -> TRANSFORMING -> DELIVERING -> COMPLETED plus X -> FAILED for
\* non-terminal X, and a method call that is not such an edge raises and leaves
\* the status unchanged.
C1_OnlyGraphEdges ==
    last.op \in MethodOps =>
        LET pre == last.pre.status
            post == jobs[last.job].status
        IN  /\ pre # post => <<pre, post>> \in GraphEdges
            /\ <<pre, TargetOf[last.op]>> \notin GraphEdges =>
                    last.outcome = "raised" /\ post = pre

\* C1 amended: a status change made by mark_as_fetching, mark_as_transforming or
\* mark_as_delivering is an edge of the chain PENDING -> FETCHING -> TRANSFORMING
\* -> DELIVERING, and such a call off the chain raises ValueError and leaves the
\* status unchanged; mark_as_completed and mark_as_failed return normally from
\* every status and leave the job COMPLETED, respectively FAILED.
C1_GuardedChainOpenTerminals ==
    last.op \in MethodOps =>
        LET pre == last.pre.status
            post == jobs[last.job].status
        IN  /\ last.op \in GuardedOps =>
                /\ pre # post => <<pre, post>> \in ChainEdges
                /\ <<pre, TargetOf[last.op]>> \notin ChainEdges =>
                        IsValueError(last.exc) /\ post = pre
            /\ last.op \notin GuardedOps =>
                    last.outcome = "returned" /\ post = TargetOf[last.op]

\* A guarded call made off the chain, from a terminal status.
C1_Witness ==
    /\ last.op = "mark_as_transforming"
    /\ last.pre.status = "COMPLETED"
    /\ last.outcome = "raised"

(***************************************************************************)
(* C2                                                                      *)
(***************************************************************************)

\* C2: in every state reachable from fresh jobs, completed_at is set if and only
\* if the status is COMPLETED or FAILED.
C2_CompletedAtIffTerminal ==
    \A id \in DOMAIN jobs :
        (jobs[id].completed_at # None) <=> (jobs[id].status \in Terminal)

\* A failed job on which a further transition was attempted.
C2_Witness ==
    /\ last.op = "mark_as_delivering"
    /\ jobs[last.job].status = "FAILED"
    /\ jobs[last.job].completed_at # None

(***************************************************************************)
(* C3                                                                      *)
(***************************************************************************)

\* C3: in every state reachable from fresh jobs by mark_as_* calls, including
\* mark_as_completed after mark_as_failed, error_message is set if and only if
\* the status is FAILED.
C3_ErrorMessageIffFailed ==
    \A id \in DOMAIN jobs :
        (jobs[id].error_message # None) <=> (jobs[id].status = "FAILED")

(***************************************************************************)
(* C4                                                                      *)
(***************************************************************************)

\* The status a guarded method requires.
RequiredBy ==
    [op \in GuardedOps |->
        CASE op = "mark_as_fetching" -> "PENDING"
          [] op = "mark_as_transforming" -> "FETCHING"
          [] op = "mark_as_delivering" -> "TRANSFORMING"]

\* C4: mark_as_fetching succeeds exactly from PENDING (giving FETCHING),
\* mark_as_transforming exactly from FETCHING (giving TRANSFORMING),
\* mark_as_delivering exactly from TRANSFORMING (giving DELIVERING); from every
\* other status the call raises and leaves status, completed_at and
\* error_message as they were.
C4_GuardedTransitions ==
    last.op \in GuardedOps =>
        LET pre == last.pre
            post == jobs[last.job]
        IN  IF pre.status = RequiredBy[last.op]
            THEN /\ last.outcome = "returned"
                 /\ post.status = TargetOf[last.op]
            ELSE /\ IsValueError(last.exc)
                 /\ post.status = pre.status
                 /\ post.completed_at = pre.completed_at
                 /\ post.error_message = pre.error_message

\* A guarded call refused on a failed job that carries a message and a timestamp.
C4_Witness ==
    /\ last.op = "mark_as_fetching"
    /\ last.outcome = "raised"
    /\ last.pre.status = "FAILED"
    /\ jobs[last.job].error_message # None
    /\ jobs[last.job].completed_at # None

(***************************************************************************)
(* C5                                                                      *)
(***************************************************************************)

\* C5: mark_as_completed never fails; from every status it sets the status to
\* COMPLETED and completed_at to a timestamp, and leaves error_message alone.
C5_MarkAsCompleted ==
    last.op = "mark_as_completed" =>
        /\ last.outcome = "returned"
        /\ jobs[last.job].status = "COMPLETED"
        /\ jobs[last.job].completed_at # None
        /\ jobs[last.job].error_message = last.pre.error_message

\* mark_as_completed on a failed job, whose message it keeps.
C5_Witness ==
    /\ last.op = "mark_as_completed"
    /\ last.pre.status = "FAILED"
    /\ jobs[last.job].error_message # None

(***************************************************************************)
(* C6                                                                      *)
(***************************************************************************)

\* C6: mark_as_failed(message) never fails; from every status it sets the status
\* to FAILED, error_message to exactly the given message, replacing any earlier
\* one, and completed_at to a timestamp.
C6_MarkAsFailed ==
    last.op = "mark_as_failed" =>
        /\ last.outcome = "returned"
        /\ jobs[last.job].status = "FAILED"
        /\ jobs[last.job].error_message = Some(last.args[1])
        /\ jobs[last.job].completed_at # None

\* mark_as_failed on a job that already carried another message.
C6_Witness ==
    /\ last.op = "mark_as_failed"
    /\ last.pre.error_message # None
    /\ last.pre.error_message # Some(last.args[1])

(***************************************************************************)
(* C7                                                                      *)
(***************************************************************************)

\* C7: once completed_at of a job is set, no later method call or use-case
\* execution, successful or failing, resets it to unset.
C7_CompletedAtNeverCleared ==
    [][\A id \in DOMAIN jobs :
            jobs[id].completed_at # None => jobs'[id].completed_at # None]_vars

\* An execution failing in its port on a job whose completed_at was already set.
C7_Witness ==
    /\ PortRaised
    /\ last.pre.completed_at # None

(***************************************************************************)
(* C8                                                                      *)
(***************************************************************************)

\* C8: whenever the port of a use case raises, execute() ends with the job FAILED
\* and completed_at set, and raises that very exception.
C8_RecordThenReraise ==
    PortRaised =>
        /\ last.outcome = "raised"
        /\ last.exc = last.port_result[1].value
        /\ jobs[last.job].status = "FAILED"
        /\ jobs[last.job].completed_at # None

\* A delivery whose port raised.
C8_Witness ==
    /\ PortRaised
    /\ last.op = "deliver"
    /\ last.exc = Some([type |-> "Exception", args |-> <<"Connection timeout">>])

(***************************************************************************)
(* C9                                                                      *)
(***************************************************************************)

StagePrefix ==
    [op \in UseCaseOps |->
        CASE op = "fetch" -> "Failed to fetch source data: "
          [] op = "transform" -> "Failed to transform data: "
          [] op = "deliver" -> "Failed to deliver data: "]

\* C9: when a stage's port raises an exception with text m, the job's
\* error_message is the prefix of the stage that was executing followed by m.
C9_StagePrefixedMessage ==
    PortRaised =>
        jobs[last.job].error_message =
            Some(StagePrefix[last.op] \o str(last.port_result[1].value[1]))

\* A transformation whose port raised with a text.
C9_Witness ==
    /\ PortRaised
    /\ last.op = "transform"
    /\ jobs[last.job].error_message = Some("Failed to transform data: Connection timeout")

(***************************************************************************)
(* C10                                                                     *)
(***************************************************************************)

\* C10: FetchSourceDataUseCase.execute on a PENDING job whose port succeeds: the
\* job is FETCHING when the port is called, the port is called exactly once, with
\* the given request; the port's response is returned unchanged; the job is left
\* FETCHING with completed_at and error_message unset.
C10_SuccessfulFetch ==
    /\ (last.op = "fetch" /\ last.outcome = "awaiting") =>
            /\ last.pre.status = "PENDING"
            /\ jobs[last.job].status = "FETCHING"
            /\ portCalls[last.job]["source"] =
                    << [args |-> last.args, status |-> "FETCHING"] >>
    /\ (last.op = "fetch" /\ PortReturned) =>
            /\ last.outcome = "returned"
            /\ last.value = last.port_result[1].value
            /\ portCalls[last.job]["source"] =
                    << [args |-> last.args, status |-> "FETCHING"] >>
            /\ jobs[last.job] = last.pre
            /\ jobs[last.job].status = "FETCHING"
            /\ jobs[last.job].completed_at = None
            /\ jobs[last.job].error_message = None

\* A fetch that returned the port's response.
C10_Witness ==
    /\ last.op = "fetch"
    /\ PortReturned
    /\ last.value # None
    /\ last.value[1].data = UsersDocument

(***************************************************************************)
(* C11                                                                     *)
(***************************************************************************)

\* C11: TransformDataUseCase.execute on a FETCHING job whose engine succeeds:
\* the job is TRANSFORMING when the engine is called, the engine is called
\* exactly once, with the given source data and rule list; the engine's result
\* is returned unchanged; the job is left TRANSFORMING.
C11_SuccessfulTransform ==
    /\ (last.op = "transform" /\ last.outcome = "awaiting") =>
            /\ last.pre.status = "FETCHING"
            /\ jobs[last.job].status = "TRANSFORMING"
            /\ portCalls[last.job]["transformation"] =
                    << [args |-> last.args, status |-> "TRANSFORMING"] >>
    /\ (last.op = "transform" /\ PortReturned) =>
            /\ last.outcome = "returned"
            /\ last.value = last.port_result[1].value
            /\ portCalls[last.job]["transformation"] =
                    << [args |-> last.args, status |-> "TRANSFORMING"] >>
            /\ jobs[last.job] = last.pre
            /\ jobs[last.job].status = "TRANSFORMING"

\* A transformation that returned the engine's document.
C11_Witness ==
    /\ last.op = "transform"
    /\ PortReturned
    /\ last.args = <<UsersDocument, DirectMappingRules>>
    /\ last.value = Some(CustomersDocument)

(***************************************************************************)
(* C12                                                                     *)
(***************************************************************************)

\* C12: DeliverDataUseCase.execute on a TRANSFORMING job: the job is DELIVERING
\* at the moment the destination port is called; when the port returns, the job
\* ends COMPLETED with completed_at set and error_message unset; and a job is
\* COMPLETED only after its destination port call has returned without error.
C12_DeliverThenComplete ==
    /\ (last.op = "deliver" /\ last.outcome = "awaiting") =>
            /\ last.pre.status = "TRANSFORMING"
            /\ jobs[last.job].status = "DELIVERING"
            /\ portCalls[last.job]["destination"][1].status = "DELIVERING"
    /\ (last.op = "deliver" /\ PortReturned) =>
            /\ last.outcome = "returned"
            /\ last.pre.status = "DELIVERING"
            /\ jobs[last.job].status = "COMPLETED"
            /\ jobs[last.job].completed_at # None
            /\ jobs[last.job].error_message = None
    /\ (last.op = "deliver" /\ PortRaised) => jobs[last.job].status # "COMPLETED"
    /\ \A id \in DOMAIN jobs :
            jobs[id].status = "COMPLETED" =>
                /\ portResults[id]["destination"] = <<"returned">>
                /\ \A x \in DOMAIN inflight : inflight[x].job # id

\* A delivery whose port returned, after the clock has moved.
C12_Witness ==
    /\ last.op = "deliver"
    /\ PortReturned
    /\ jobs[last.job].status = "COMPLETED"
    /\ jobs[last.job].completed_at = Some(MaxClock)

(***************************************************************************)
(* C13                                                                     *)
(***************************************************************************)

\* PENDING -> FETCHING -> TRANSFORMING -> DELIVERING -> COMPLETED
HappyPath == ChainEdges \cup { <<"DELIVERING", "COMPLETED">> }

\* C13: a PENDING job driven through fetch, transform and deliver in order:
\* as long as no port raises, every change of status is the next edge of
\* PENDING, FETCHING, TRANSFORMING, DELIVERING, COMPLETED; the transformation
\* port is called with the data of the fetched response and the destination
\* port with the transformed document; and the job that ends COMPLETED has
\* completed_at set, error_message unset and each port called exactly once,
\* each call having returned.
C13_PipelineStep ==
    /\ \A id \in DOMAIN jobs :
            jobs'[id].status # jobs[id].status =>
                \/ <<jobs[id].status, jobs'[id].status>> \in HappyPath
                \/ (last'.port_result # None /\ last'.port_result[1].kind = "raised")
    /\ (/\ last'.op = "transform" /\ last'.outcome = "awaiting"
        /\ ~(last.op = "transform" /\ last.outcome = "awaiting")) =>
            /\ last.op = "fetch"
            /\ last.port_result = Some([kind |-> "returned", value |-> last.value])
            /\ last'.port_args[1] = <<last.value[1].data, last'.args[2]>>
    /\ (/\ last'.op = "deliver" /\ last'.outcome = "awaiting"
        /\ ~(last.op = "deliver" /\ last.outcome = "awaiting")) =>
            /\ last.op = "transform"
            /\ last.port_result = Some([kind |-> "returned", value |-> last.value])
            /\ last'.port_args[1] = <<last'.args[2], last.value[1]>>
    /\ \A id \in DOMAIN jobs :
            jobs'[id].status = "COMPLETED" =>
                /\ jobs'[id].completed_at # None
                /\ jobs'[id].error_message = None
                /\ \A p \in Ports :
                        /\ Len(portCalls'[id][p]) = 1
                        /\ portResults'[id][p] = <<"returned">>

C13_EndToEnd == [][C13_PipelineStep]_vars

\* The job ended COMPLETED after the users document was fetched, transformed
\* into the customers document, and that one delivered.
C13_Witness ==
    /\ jobs["job-1"].status = "COMPLETED"
    /\ portCalls["job-1"]["transformation"][1].args[1] = UsersDocument
    /\ portCalls["job-1"]["destination"][1].args[2] = CustomersDocument
    /\ \A p \in Ports : portResults["job-1"][p] = <<"returned">>

(***************************************************************************)
(* C14                                                                     *)
(***************************************************************************)

\* The stage whose port call a stage's own port call has to follow.
StageBefore == [transform |-> "source", deliver |-> "transformation"]

\* The latest step called the port of a transform or deliver execution.
PortJustCalled ==
    /\ last.op \in DOMAIN StageBefore
    /\ last.outcome = "awaiting"

\* C14 as stated: for every interleaving of use-case executions on a job, the
\* transformation port is invoked only after the job's source port call has
\* returned, and the destination port only after its transformation port call
\* has returned.
C14_PortsInOrder ==
    PortJustCalled => portResults[last.job][StageBefore[last.op]] = <<"returned">>

\* C14, amended: the transformation (destination) port is invoked only after
\* the source (transformation) port has been invoked for the job, and, when no
\* other execution is pending at the time of the call, only after that earlier
\* port call has returned.
C14_PortsInOrderOneAtATime ==
    PortJustCalled =>
        /\ Len(portCalls[last.job][StageBefore[last.op]]) = 1
        /\ Len(inflight) = 1 =>
                portResults[last.job][StageBefore[last.op]] = <<"returned">>

\* The destination port is called with nothing else pending, after a fetch and
\* a transformation that both returned.
C14_Witness ==
    /\ last.op = "deliver"
    /\ last.outcome = "awaiting"
    /\ Len(inflight) = 1
    /\ portResults[last.job]["source"] = <<"returned">>
    /\ portResults[last.job]["transformation"] = <<"returned">>

(***************************************************************************)
(* C15                                                                     *)
(***************************************************************************)

\* The number of calls made so far to the ports on behalf of a job.
CallCount(calls, id) ==
    Len(calls[id]["source"]) + Len(calls[id]["transformation"]) + Len(calls[id]["destination"])

\* C15: the core performs no retries.  A port is called only in the step in
\* which a caller's execute() reaches its await, and once in that step; the
\* step in which a port returns or raises ends that one execution, calls no
\* port and starts no execution, also when it leaves the job FAILED.
C15_NoRetryStep ==
    /\ \A id \in DOMAIN jobs :
            portCalls'[id] # portCalls[id] =>
                /\ last'.op \in UseCaseOps
                /\ last'.job = id
                /\ last'.outcome = "awaiting"
                /\ CallCount(portCalls', id) = CallCount(portCalls, id) + 1
                /\ Len(portCalls'[id][PortOf[last'.op]]) =
                        Len(portCalls[id][PortOf[last'.op]]) + 1
                /\ inflight' = Append(inflight, inflight'[Len(inflight')])
    /\ \A id \in DOMAIN jobs, p \in Ports :
            Len(portResults'[id][p]) > Len(portResults[id][p]) =>
                /\ portCalls' = portCalls
                /\ Len(inflight') = Len(inflight) - 1
                /\ last'.outcome \in {"returned", "raised"}
                /\ last'.outcome = "raised" => jobs'[id].status = "FAILED"

C15_NoRetries == [][C15_NoRetryStep]_vars

\* A port raised, the job is FAILED, and the port has been called once.
C15_Witness ==
    /\ PortRaised
    /\ jobs[last.job].status = "FAILED"
    /\ inflight = <<>>
    /\ CallCount(portCalls, last.job) = 1

(***************************************************************************)
(* C16                                                                     *)
(***************************************************************************)

IsAttempt(ev) == ev.kind = "attempt"

IsSleep(ev) == ev.kind = "sleep"

\* The attempts of the adapter call, in order.
Attempts == SelectSeq(http.events, IsAttempt)

HttpRaised == http.pc = "done" /\ http.result[1].kind = "raised"

HttpReturned == http.pc = "done" /\ http.result[1].kind = "returned"

\* C16: HttpSourceAdapter.fetch with max_retries M >= 1 makes at most M
\* attempts; it raises exactly when M attempts have been made and all of them
\* failed, and what it raises is a SourceFetchError whose cause is the failure
\* of the last attempt (an HTTP error status, a timeout or any other exception).
C16_FetchRaisesAfterAllAttempts ==
    (http.adapter = "source" /\ http.max_retries >= 1) =>
        /\ Len(Attempts) <= http.max_retries
        /\ \A i \in DOMAIN Attempts : Attempts[i].index = i - 1
        /\ HttpRaised <=>
                /\ Len(Attempts) = http.max_retries
                /\ \A i \in DOMAIN Attempts : Attempts[i].failure # None
        /\ HttpRaised =>
                /\ http.result[1].value[1].type = "SourceFetchError"
                /\ http.result[1].value[1].cause = Attempts[http.max_retries].failure

\* fetch raised after MaxRetries attempts that failed in different ways, the
\* last one by a timeout.
C16_Witness ==
    /\ http.adapter = "source"
    /\ http.max_retries = MaxRetries
    /\ HttpRaised
    /\ Attempts[1].failure[1].type = "HTTPStatusError"
    /\ Attempts[MaxRetries].failure[1].type = "ReadTimeout"
    /\ http.result[1].value[1].args = <<"Request timeout: timed out">>

(***************************************************************************)
(* C17                                                                     *)
(***************************************************************************)

\* C17: when fetch returns a response, having made N attempts, attempts
\* 0 .. N-2 failed and attempt N-1 succeeded, N is at most max_retries and
\* exactly N requests were sent; the response returned is that of attempt N-1;
\* and exactly N-1 waits were made, the wait after failed attempt i lasting
\* 2^i seconds and coming before attempt i+1.
C17_FetchSucceedsAfterBackoff ==
    (http.adapter = "source" /\ HttpReturned /\ http.result[1].value # None) =>
        LET N == Len(Attempts)
            returned == http.result[1].value[1]
            answered == http.events[2 * N - 1].answer.value
        IN  /\ N >= 1
            /\ N <= http.max_retries
            /\ Len(http.events) = 2 * N - 1
            /\ \A i \in 0 .. N - 1 :
                    /\ IsAttempt(http.events[2 * i + 1])
                    /\ http.events[2 * i + 1].index = i
                    /\ http.events[2 * i + 1].sent # None
                    /\ (http.events[2 * i + 1].failure = None) <=> (i = N - 1)
            /\ \A i \in 0 .. N - 2 :
                    http.events[2 * i + 2] = [kind |-> "sleep", seconds |-> 2 ^ i]
            /\ Len(SelectSeq(http.events, IsSleep)) = N - 1
            /\ returned.status_code = answered.status_code
            /\ returned.headers = answered.headers
            /\ returned.data = IF answered.json # None THEN answered.json[1]
                               ELSE [raw_content |-> answered.text]

\* fetch returned the users document on its last permitted attempt.
C17_Witness ==
    /\ http.adapter = "source"
    /\ HttpReturned
    /\ http.result[1].value # None
    /\ Len(Attempts) = MaxRetries
    /\ Len(SelectSeq(http.events, IsSleep)) = MaxRetries - 1
    /\ http.result[1].value[1].data = UsersDocument

(***************************************************************************)
(* C18                                                                     *)
(***************************************************************************)

\* An attempt that sent a POST and was answered with a non-error status.
AcceptedPost(ev) ==
    /\ IsAttempt(ev)
    /\ ev.sent # None
    /\ ev.sent[1].method = "POST"
    /\ ev.answer.kind = "response"
    /\ ev.answer.value.status_code < 400

\* C18: for every max_retries and every sequence of answers, a finished
\* HttpDestinationAdapter.deliver has returned only if one of its POST attempts
\* received a non-error HTTP status, and has raised DeliveryError otherwise.
C18_DeliverReturnsOnlyOnAcceptedPost ==
    (http.adapter = "destination" /\ http.pc = "done") =>
        IF \E i \in DOMAIN http.events : AcceptedPost(http.events[i])
        THEN HttpReturned
        ELSE HttpRaised /\ http.result[1].value[1].type = "DeliveryError"

(***************************************************************************)
(* C19                                                                     *)
(***************************************************************************)

EngineDone == engine.pc = "done"

\* C19: TransformationEngine.transform with an empty rule list returns an
\* empty target document, whatever the source document, and raises nothing.
C19_EmptyRuleList ==
    (EngineDone /\ engine.rules = <<>>) =>
        engine.result = [kind |-> "returned", value |-> EmptyDict]

\* transform was called with no rules on a source document that has fields.
C19_Witness ==
    /\ EngineDone
    /\ engine.rules = <<>>
    /\ engine.source_data # EmptyDict
    /\ engine.result.kind = "returned"

(***************************************************************************)
(* C20                                                                     *)
(***************************************************************************)

\* C20: when transform returns, the result of every rule whose target_field
\* has several dot-separated segments is found at that path of the target
\* document, under nested mappings, and the document has no key that is the
\* dotted path itself (target "a.b" from source "x" on {"x": 5} gives
\* {"a": {"b": 5}}).
C20_NestedTargetPath ==
    (EngineDone /\ engine.result.kind = "returned") =>
        /\ \A i \in DOMAIN engine.rules :
                LET target_field == engine.rules[i].target_field
                IN  Len(split(target_field)) > 1 =>
                        /\ target_field \notin DOMAIN engine.result.value.dict
                        /\ split(target_field)[1] \in DOMAIN engine.result.value.dict
        /\ (/\ engine.source_data = PyDict(<<"x">> :> PyInt(5))
            /\ engine.rules = << [target_field |-> <<"a", ".", "b">>, source_field |-> <<"x">>] >>)
                => engine.result.value =
                        PyDict(<<"a">> :> PyDict(<<"b">> :> PyInt(5)))

(***************************************************************************)
(* C21                                                                     *)
(***************************************************************************)

\* The segments joined again with dots.
RECURSIVE JoinDots(_)
JoinDots(keys) ==
    IF Len(keys) = 1 THEN keys[1] ELSE keys[1] \o <<".">> \o JoinDots(Tail(keys))

\* The values met when walking keys through nested mappings from doc: the
\* i-th is the entry keys[i] of the one before it when that one is a mapping
\* with this key, and the absent value otherwise.
WalkFrom(doc, keys) ==
    LET v[i \in 0 .. Len(keys)] ==
            IF i = 0 THEN doc
            ELSE IF "dict" \in DOMAIN v[i - 1] /\ keys[i] \in DOMAIN v[i - 1].dict
            THEN v[i - 1].dict[keys[i]]
            ELSE PyNone
    IN  v

\* C21: _extract_value never fails: for an empty (or omitted) path it returns
\* the whole document; otherwise the path is cut at its dots into segments
\* and the result is the value reached by walking the segments through
\* nested mappings, the absent value as soon as a segment is missing or the
\* value at hand is not a mapping.
C21_SourcePathResolution ==
    engine.pc = "extracted" =>
        IF engine.field_path = <<>>
        THEN engine.value = engine.data
        ELSE LET keys == split(engine.field_path)
             IN  /\ JoinDots(keys) = engine.field_path
                 /\ \A i \in DOMAIN keys : \A j \in DOMAIN keys[i] : keys[i][j] # "."
                 /\ engine.value = WalkFrom(engine.data, keys)[Len(keys)]

\* The path u.n resolved to the nested entry.
C21_Witness ==
    /\ engine.pc = "extracted"
    /\ engine.field_path = <<"u", ".", "n">>
    /\ engine.value = PyStr(<<"J", "o", "h", "n">>)

(***************************************************************************)
(* C22                                                                     *)
(***************************************************************************)

\* The exception e and the exceptions it was raised from.
RECURSIVE CauseChain(_)
CauseChain(e) ==
    {e} \cup (IF "cause" \in DOMAIN e /\ e.cause # None THEN CauseChain(e.cause[1]) ELSE {})

\* What the operation of a rule does on the resolved value, for a rule whose
\* operation is registered.
RuleCall(rule) ==
    transform_func(engine.registry[Get(rule, "transform", "direct")],
                   extract_value(engine.source_data, Get(rule, "source_field", None)),
                   Get(rule, "params", <<>>))

NoTarget(rule) == Get(rule, "target_field", None) = <<>>

UnknownOperation(rule) == Get(rule, "transform", "direct") \notin DOMAIN engine.registry

\* The rule cannot be applied: no target path, an unknown operation name, or
\* an operation that raises.
Offending(rule) ==
    \/ NoTarget(rule)
    \/ UnknownOperation(rule)
    \/ RuleCall(rule).kind = "raised"

\* The failure behind an offending rule.
IsUnderlyingFailure(rule, e) ==
    IF NoTarget(rule) THEN e.args = <<"Missing target_field in rule">>
    ELSE IF UnknownOperation(rule)
    THEN e.args = <<"Unknown transformation type: " \o rule.transform>>
    ELSE e = RuleCall(rule).value

\* C22: when some rule of the list is offending, transform raises one
\* TransformationError whose cause chain contains the failure of the first
\* offending rule, and the operations called are those of the rules before it
\* (and its own, when it is the operation that raised): no later rule is
\* evaluated.  A list without an offending rule makes transform return.
C22_OffendingRuleAborts ==
    EngineDone =>
        LET bad == { i \in DOMAIN engine.rules : Offending(engine.rules[i]) }
        IN  IF bad = {}
            THEN engine.result.kind = "returned"
            ELSE LET k == CHOOSE i \in bad : \A j \in bad : i <= j
                     rule == engine.rules[k]
                 IN  /\ engine.result.kind = "raised"
                     /\ engine.result.value.type = "TransformationError"
                     /\ \E e \in CauseChain(engine.result.value) :
                            e # engine.result.value /\ IsUnderlyingFailure(rule, e)
                     /\ Len(engine.calls) =
                            IF NoTarget(rule) \/ UnknownOperation(rule) THEN k - 1 ELSE k

\* The second rule's operation raised a ValueError, after the first rule was
\* applied; transform raised a TransformationError wrapping it.
C22_Witness ==
    /\ EngineDone
    /\ Len(engine.rules) = 2
    /\ ~Offending(engine.rules[1])
    /\ ~NoTarget(engine.rules[2])
    /\ ~UnknownOperation(engine.rules[2])
    /\ RuleCall(engine.rules[2]).kind = "raised"
    /\ engine.result.kind = "raised"
    /\ Len(engine.calls) = 2

(***************************************************************************)
(* C23                                                                     *)
(***************************************************************************)

\* The rules of the list in the opposite order.
Reversed(rules) == [i \in 1 .. Len(rules) |-> rules[Len(rules) + 1 - i]]

\* The positions of the rules of the list that write the target path.
RulesFor(rules, target_field) ==
    { i \in DOMAIN rules : Get(rules[i], "target_field", None) = target_field }

\* C23: in the document transform returns, the entry of each target path is
\* what the last rule of the list with that target path produces from the
\* original source document, whatever the other rules are; there are no other
\* entries; and with the rules in the opposite order the entries of the target
\* paths that one rule only writes are the same.
C23_LaterRuleWins ==
    (EngineDone /\ engine.result.kind = "returned") =>
        LET rules == engine.rules
            doc == engine.result.value.dict
            targets == { Get(rules[i], "target_field", None) : i \in DOMAIN rules }
            other == transform(engine, engine.source_data, Reversed(rules))
        IN  /\ DOMAIN doc = targets
            /\ \A t \in targets :
                   LET last_rule == CHOOSE i \in RulesFor(rules, t) :
                                        \A j \in RulesFor(rules, t) : j <= i
                   IN  doc[t] = RuleCall(rules[last_rule]).value
            /\ other.kind = "returned"
            /\ \A t \in targets :
                   Cardinality(RulesFor(rules, t)) = 1 => other.value.dict[t] = doc[t]

\* Two rules wrote the same target path with different values, and the
\* document holds the second rule's.
C23_Witness ==
    /\ EngineDone
    /\ engine.result.kind = "returned"
    /\ Len(engine.rules) = 2
    /\ engine.rules[1].target_field = engine.rules[2].target_field
    /\ RuleCall(engine.rules[1]).value # RuleCall(engine.rules[2]).value
    /\ engine.result.value.dict[engine.rules[2].target_field]
           = RuleCall(engine.rules[2]).value

(***************************************************************************)
(* C24                                                                     *)
(***************************************************************************)

\* The operation a rule names; "direct" when it names none.
OperationName(rule) == Get(rule, "transform", "direct")

\* The callable registered last under the name on the engine of the latest
\* transform call, or the built-in of that name when none was.
LastRegistered(name) ==
    LET regs == { i \in DOMAIN engine.registered : engine.registered[i].name = name }
    IN  IF regs = {} THEN BuiltinTransformations[name]
        ELSE engine.registered[CHOOSE i \in regs : \A j \in regs : j <= i].func

Called(func) == engine.pc = "called" /\ engine.func = func

\* C25: default_value returns the `default` parameter (None when there is
\* none) exactly when the value is None or the empty text, and the value
\* itself otherwise.
C25_DefaultValue ==
    Called("default_value") =>
        IF engine.value = [none |-> TRUE] \/ engine.value = [str |-> <<>>]
        THEN engine.result =
                 [kind |-> "returned",
                  value |-> IF "default" \in DOMAIN engine.params
                            THEN engine.params.default ELSE [none |-> TRUE]]
        ELSE engine.result = [kind |-> "returned", value |-> engine.value]

\* default_value was called on 0 with another default and returned 0.
C25_Witness ==
    /\ Called("default_value")
    /\ engine.value = [int |-> 0]
    /\ engine.params = [default |-> [str |-> <<"D">>]]
    /\ engine.result.value = [int |-> 0]

(***************************************************************************)
(* C26                                                                     *)
(***************************************************************************)

\* The texts joined by the separator.
RECURSIVE Joined(_, _)
Joined(texts, separator) ==
    IF Len(texts) = 0 THEN <<>>
    ELSE IF Len(texts) = 1 THEN texts[1]
    ELSE texts[1] \o separator \o Joined(Tail(texts), separator)

\* C26: concatenate on a mapping with a `fields` list returns the texts of
\* the entries of the named fields, the empty text for a field the mapping
\* lacks, in the order of the list, joined by the separator (a single space
\* when none is given).
C26_Concatenate ==
    (/\ Called("concatenate")
     /\ "dict" \in DOMAIN engine.value
     /\ "fields" \in DOMAIN engine.params
     /\ "list" \in DOMAIN engine.params.fields) =>
        LET fields == engine.params.fields.list
            separator == IF "separator" \in DOMAIN engine.params
                         THEN engine.params.separator.str ELSE <<" ">>
            texts == [i \in DOMAIN fields |->
                         IF fields[i] \in DOMAIN engine.value.dict
                         THEN pystr(engine.value.dict[fields[i]])
                         ELSE <<>>]
        IN  engine.result = [kind |-> "returned", value |-> [str |-> Joined(texts, separator)]]

(***************************************************************************)
(* C27                                                                     *)
(***************************************************************************)

IsDateRule(rule) == Get(rule, "transform", "direct") = "format_date"

\* The value a rule of the latest transform use-case call resolves.
StageInput(rule) == extract_value(last.args[1], Get(rule, "source_field", None))

EmptyOrAbsent(value) == value = [none |-> TRUE] \/ value = [str |-> <<>>]

\* The rule reformats a date whose text does not parse under its input_format.
Mismatched(rule) ==
    /\ IsDateRule(rule)
    /\ ~EmptyOrAbsent(StageInput(rule))
    /\ strptime(pystr(StageInput(rule)),
                IF "params" \in DOMAIN rule /\ "input_format" \in DOMAIN rule.params
                THEN rule.params.input_format.str
                ELSE <<"%", "Y", "-", "%", "m", "-", "%", "d">>).kind = "raised"

TransformStageEnded ==
    last.op = "transform" /\ last.outcome # "awaiting" /\ last.port_result # None

\* C27: when the transform use case has run the engine on rules that reformat
\* dates: if some rule's input is neither empty nor absent and does not match
\* its input_format, the engine raised a TransformationError, execute raised
\* it and the job is FAILED with the message "Failed to transform data: ..."
\* of that error; otherwise the engine returned, and the entry written by a
\* date rule whose input is empty or absent is the empty text.
C27_DateReformatting ==
    TransformStageEnded =>
        LET rules == last.args[2]
        IN  IF \E i \in DOMAIN rules : Mismatched(rules[i])
            THEN /\ last.port_result[1].kind = "raised"
                 /\ last.port_result[1].value[1].type = "TransformationError"
                 /\ last.outcome = "raised"
                 /\ last.exc = last.port_result[1].value
                 /\ jobs[last.job].status = "FAILED"
                 /\ jobs[last.job].error_message =
                        <<"Failed to transform data: " \o last.exc[1].args[1]>>
            ELSE /\ last.port_result[1].kind = "returned"
                 /\ last.outcome = "returned"
                 /\ \A i \in DOMAIN rules :
                        (/\ IsDateRule(rules[i])
                         /\ EmptyOrAbsent(StageInput(rules[i]))
                         /\ \A j \in DOMAIN rules :
                                j > i => rules[j].target_field # rules[i].target_field)
                            => last.value[1].dict[rules[i].target_field] = [str |-> <<>>]

\* A rule reformatted an empty text, the next one met a name where a date was
\* expected, and the job is FAILED.
C27_Witness ==
    /\ TransformStageEnded
    /\ Len(last.args[2]) = 2
    /\ IsDateRule(last.args[2][1])
    /\ StageInput(last.args[2][1]) = [str |-> <<>>]
    /\ Mismatched(last.args[2][2])
    /\ StageInput(last.args[2][2]) = [str |-> <<"J", "o", "h", "n">>]
    /\ jobs[last.job].status = "FAILED"

(***************************************************************************)
(* C28                                                                     *)
(***************************************************************************)

\* The fields of a job that identify it.
Identity(job) ==
    [id |-> job.id, customer_id |-> job.customer_id, config_name |-> job.config_name,
     created_at |-> job.created_at]

\* C28: no step (a mark_as_* call, a use case reaching its port, a use case
\* ending because its port returned or raised, the clock) changes the id,
\* customer_id, config_name or created_at of a job.
C28_IdentityKept ==
    [][\A id \in DOMAIN jobs : Identity(jobs'[id]) = Identity(jobs[id])]_vars

\* After the clock has moved, a use case has completed a job and another call
\* on it failed; the job is as it was created but for status and time of
\* completion.
C28_Witness ==
    /\ now > 0
    /\ last.op \in {"fetch", "transform", "deliver"}
    /\ last.outcome = "raised"
    /\ jobs[last.job].status \in {"COMPLETED", "FAILED"}
    /\ jobs[last.job].completed_at = <<1>>
    /\ Identity(jobs[last.job]) =
           [id |-> last.job, customer_id |-> Customers[last.job],
            config_name |-> ConfigNames[last.job], created_at |-> 0]

(***************************************************************************)
(* C29                                                                     *)
(***************************************************************************)

\* The status of a job as its own port calls and their outcomes give it: FAILED
\* once one of them raised; otherwise COMPLETED once the destination port
\* returned, and else the stage of the latest port called for it.
StatusByOwnCalls(id) ==
    LET calls == portCalls[id]
        results == portResults[id]
    IN  IF \E p \in Ports : \E k \in DOMAIN results[p] : results[p][k] = "raised"
        THEN "FAILED"
        ELSE IF results["destination"] # <<>> THEN "COMPLETED"
        ELSE IF calls["destination"] # <<>> THEN "DELIVERING"
        ELSE IF calls["transformation"] # <<>> THEN "TRANSFORMING"
        ELSE IF calls["source"] # <<>> THEN "FETCHING"
        ELSE "PENDING"

\* C29: with two jobs run through the same use cases and ports in any
\* interleaving, the status of each job is always the one its own port calls
\* and their outcomes give it, and a step leaves every job but the one it is
\* about as it was.
C29_JobsIndependent ==
    /\ [](\A id \in DOMAIN jobs : jobs[id].status = StatusByOwnCalls(id))
    /\ [][\A id \in DOMAIN jobs :
               (last'.op = "init" \/ id # last'.job) => jobs'[id] = jobs[id]]_vars

\* The first job was completed while an execution on the second one, entered
\* before, is still waiting for its port.
C29_Witness ==
    /\ DOMAIN jobs = {"job-1", "job-2"}
    /\ last.op = "deliver"
    /\ last.job = "job-1"
    /\ jobs["job-1"].status = "COMPLETED"
    /\ Len(inflight) = 1
    /\ inflight[1].job = "job-2"
    /\ jobs["job-2"].status = "TRANSFORMING"
    /\ jobs["job-2"].customer_id = "customer2"

(***************************************************************************)
(* C30                                                                     *)
(***************************************************************************)

\* A call of the other adapter with the same max_retries: fetch of a GET
\* request for a deliver call, deliver of the customers document for a fetch
\* call.
CounterpartCall(self) ==
    IF self.adapter = "source"
    THEN call_enter(HttpDestinationAdapter(self.max_retries),
                    CHOOSE r \in Requests : r.method = "POST", Some(CustomersDocument))
    ELSE call_enter(HttpSourceAdapter(self.max_retries),
                    CHOOSE r \in Requests : r.method = "GET", None)

\* The call taken through the attempts and waits of another call: each
\* attempt meets the outcome of that call's attempt; it has diverged when it
\* is not about to attempt, or to wait, where the other call did.
RECURSIVE Replay(_, _)
Replay(self, events) ==
    IF events = <<>> THEN self
    ELSE IF IsAttempt(Head(events)) /\ self.pc = "attempt"
    THEN Replay(IF self.adapter = "source"
                THEN fetch_attempt(self, Head(events).answer)
                ELSE deliver_attempt(self, Head(events).answer),
                Tail(events))
    ELSE IF IsSleep(Head(events)) /\ self.pc = "sleep"
    THEN Replay(sleep(self), Tail(events))
    ELSE [self EXCEPT !.pc = "diverged"]

\* What the retry policy shows of a call: the attempts made, the waits, where
\* the call stands and how it ended.
PolicyTrace(self) ==
    LET attempts == SelectSeq(self.events, IsAttempt)
        waits == SelectSeq(self.events, IsSleep)
    IN  [attempts |-> Len(attempts),
         failed |-> [i \in DOMAIN attempts |-> attempts[i].failure # None],
         waits |-> [i \in DOMAIN waits |-> waits[i].seconds],
         pc |-> self.pc,
         outcome |-> IF self.pc = "done" THEN self.result[1].kind ELSE "none"]

StageError == [source |-> "SourceFetchError", destination |-> "DeliveryError"]

\* C30: at every point of a fetch or deliver call, the other adapter, called
\* with the same max_retries and meeting the same outcomes attempt by attempt,
\* has made as many attempts and the same waits and stands at the same point;
\* when the call has ended, the other one has ended the same way, each raising
\* the error of its own stage.
C30_SamePolicy ==
    http.adapter \in {"source", "destination"} =>
        LET other == Replay(CounterpartCall(http), http.events)
        IN  /\ other.adapter # http.adapter
            /\ PolicyTrace(other) = PolicyTrace(http)
            /\ HttpRaised =>
                   /\ http.result[1].value[1].type = StageError[http.adapter]
                   /\ other.result[1].value[1].type = StageError[other.adapter]

\* deliver raised DeliveryError after MaxRetries attempts (an error status,
\* two timeouts) and waits of 1 and 2 seconds, where fetch, meeting the same,
\* raises SourceFetchError.
C30_Witness ==
    /\ http.adapter = "destination"
    /\ http.max_retries = MaxRetries
    /\ HttpRaised
    /\ Attempts[1].failure[1].type = "HTTPStatusError"
    /\ Attempts[MaxRetries].failure[1].type = "ReadTimeout"
    /\ PolicyTrace(http).waits = <<1, 2>>
    /\ Replay(CounterpartCall(http), http.events).result[1].value[1].type
           = "SourceFetchError"

(***************************************************************************)
(* C31                                                                     *)
(***************************************************************************)

\* The latest step is an execute() that came to its guarded transition on a
\* job that was FAILED.
ExecutedOnFailed ==
    /\ last.op \in UseCaseOps
    /\ last.port_result = None
    /\ last.pre.status = "FAILED"

\* C31: an execute() of a use case on a FAILED job raises the error of the
\* guarded transition without a call of its port and leaves the job FAILED;
\* and no step calls a port for a job that is FAILED.
C31_NoStageAfterFailure ==
    /\ [](ExecutedOnFailed =>
              /\ last.outcome = "raised"
              /\ IsValueError(last.exc)
              /\ last.port_args = None
              /\ jobs[last.job].status = "FAILED")
    /\ [][\A id \in DOMAIN jobs :
              jobs[id].status = "FAILED" => portCalls'[id] = portCalls[id]]_vars

\* The source port raised and was the only port ever called for the job;
\* deliver was then executed and refused.
C31_Witness ==
    /\ ExecutedOnFailed
    /\ last.op = "deliver"
    /\ last.outcome = "raised"
    /\ portResults[last.job]["source"] = <<"raised">>
    /\ portCalls[last.job]["transformation"] = <<>>
    /\ portCalls[last.job]["destination"] = <<>>

(***************************************************************************)
(* C32                                                                     *)
(***************************************************************************)

\* n, or 0 when n is negative.
AtLeastZero(n) == IF n < 0 THEN 0 ELSE n

\* C32: a call of fetch or deliver with max_retries M never makes more than M
\* attempts nor more than M - 1 waits (none at all when M <= 0); when it has
\* ended it has returned or raised the error of its stage; and, every attempt
\* being answered and every wait ending, it does end.
C32_NetworkStageTerminates ==
    /\ [](http.adapter \in {"source", "destination"} =>
              /\ Len(Attempts) <= AtLeastZero(http.max_retries)
              /\ Len(SelectSeq(http.events, IsSleep)) <= AtLeastZero(http.max_retries - 1))
    /\ [](HttpRaised => http.result[1].value[1].type = StageError[http.adapter])
    /\ (http.adapter \in {"source", "destination"}) ~> (HttpReturned \/ HttpRaised)

\* deliver ended by returning on its last permitted attempt, after the waits
\* in between.
C32_Witness ==
    /\ http.adapter = "destination"
    /\ HttpReturned
    /\ http.max_retries = MaxRetries
    /\ Len(Attempts) = MaxRetries
    /\ Len(SelectSeq(http.events, IsSleep)) = MaxRetries - 1

(***************************************************************************)
(* C33                                                                     *)
(***************************************************************************)

MarkOps ==
    {"mark_as_fetching", "mark_as_transforming", "mark_as_delivering",
     "mark_as_completed", "mark_as_failed"}

\* C33: a job whose status is COMPLETED or FAILED still has one of these two
\* after any call of a mark_as_* method, made directly or by a use case.
C33_TerminalClosed ==
    [][\A id \in DOMAIN jobs :
           jobs[id].status \in Terminal => jobs'[id].status \in Terminal]_vars

\* mark_as_failed switched a COMPLETED job to FAILED.
C33_Witness ==
    /\ last.op \in MarkOps
    /\ last.pre.status = "COMPLETED"
    /\ jobs[last.job].status = "FAILED"

(***************************************************************************)
(* C34                                                                     *)
(***************************************************************************)

InProgress == {"FETCHING", "TRANSFORMING", "DELIVERING"}

\* C34: a fresh PENDING job driven only by the three use cases, one execution
\* at a time: a COMPLETED job stays COMPLETED and a FAILED job stays FAILED,
\* FAILED is entered only from FETCHING, TRANSFORMING or DELIVERING,
\* error_message is set exactly when the status is FAILED, and completed_at is
\* set exactly when the status is COMPLETED or FAILED.
C34_UseCasesOnly ==
    /\ [](\A id \in DOMAIN jobs :
              /\ (jobs[id].error_message # None) <=> (jobs[id].status = "FAILED")
              /\ (jobs[id].completed_at # None) <=> (jobs[id].status \in Terminal))
    /\ [][\A id \in DOMAIN jobs :
              /\ jobs[id].status \in Terminal => jobs'[id].status = jobs[id].status
              /\ (jobs[id].status # "FAILED" /\ jobs'[id].status = "FAILED")
                     => jobs[id].status \in InProgress]_vars

\* A use case was executed on a COMPLETED job and left it COMPLETED, with no
\* error message.
C34_Witness ==
    /\ last.op \in UseCaseOps
    /\ last.pre.status = "COMPLETED"
    /\ jobs[last.job].status = "COMPLETED"
    /\ jobs[last.job].error_message = None
    /\ jobs[last.job].completed_at # None

(***************************************************************************)
(* C35                                                                     *)
(***************************************************************************)

\* The status each use case requires of the job it is executed on.
RequiredPredecessor ==
    [op \in UseCaseOps |->
        CASE op = "fetch" -> "PENDING"
          [] op = "transform" -> "FETCHING"
          [] op = "deliver" -> "TRANSFORMING"]

\* The step just taken is the call of a use case on a job that was not in the
\* status the use case requires.
ExecutedOnWrongStatus ==
    /\ last.op \in UseCaseOps
    /\ last.port_result = None
    /\ last.pre.status # RequiredPredecessor[last.op]

\* C35: a use case executed on a job that is not in the required status
\* raises the ValueError of the rejected transition, calls no port, and leaves
\* every field of the job as it was.
C35_WrongStatusUntouched ==
    /\ [](ExecutedOnWrongStatus =>
              /\ last.outcome = "raised"
              /\ IsValueError(last.exc)
              /\ last.port_args = None
              /\ jobs[last.job] = last.pre)
    /\ [][ExecutedOnWrongStatus' =>
              /\ portCalls' = portCalls
              /\ inflight' = inflight]_vars

\* transform was executed on a job that deliver had moved to DELIVERING.
C35_Witness ==
    /\ ExecutedOnWrongStatus
    /\ last.op = "transform"
    /\ last.pre.status = "DELIVERING"
    /\ jobs[last.job].status = "DELIVERING"
    /\ jobs[last.job].error_message = None

(***************************************************************************)
(* C36                                                                     *)
(***************************************************************************)

\* C36: whatever executions are started on a job, in whatever order and
\* however they overlap at their awaits, each of the three ports is called at
\* most once for that job.
C36_EachPortAtMostOnce ==
    \A id \in DOMAIN jobs : \A p \in Ports : Len(portCalls[id][p]) <= 1

\* A second fetch was started while the first was still waiting for the source
\* port: it raised, and the source port has its one call.
C36_Witness ==
    /\ last.op = "fetch"
    /\ last.port_result = None
    /\ last.outcome = "raised"
    /\ last.pre.status = "FETCHING"
    /\ inflight # <<>>
    /\ Len(portCalls[last.job]["source"]) = 1
    /\ portResults[last.job]["source"] = <<>>

(***************************************************************************)
(* C37                                                                     *)
(***************************************************************************)

\* The waits of the current call, in order.
Waits == SelectSeq(http.events, IsSleep)

RECURSIVE TotalSeconds(_)
TotalSeconds(waits) ==
    IF waits = <<>> THEN 0 ELSE Head(waits).seconds + TotalSeconds(Tail(waits))

\* Every attempt the call is allowed has been made and has failed.
AllAttemptsFailed ==
    /\ http.adapter \in {"source", "destination"}
    /\ http.max_retries >= 1
    /\ Len(Attempts) = http.max_retries
    /\ \A i \in DOMAIN Attempts : Attempts[i].failure # None

\* C37: when all M >= 1 attempts of fetch or deliver have failed, the call has
\* raised, its last event is the M-th attempt, and it has waited exactly M - 1
\* times, 2^0 .. 2^(M-2) seconds, 2^(M-1) - 1 seconds in all: no wait follows
\* the final attempt, and none is made when M = 1.
C37_NoWaitAfterFinalAttempt ==
    AllAttemptsFailed =>
        LET M == http.max_retries
        IN  /\ HttpRaised
            /\ Len(http.events) = 2 * M - 1
            /\ IsAttempt(http.events[2 * M - 1])
            /\ Len(Waits) = M - 1
            /\ \A i \in 1 .. M - 1 : Waits[i].seconds = 2 ^ (i - 1)
            /\ TotalSeconds(Waits) = 2 ^ (M - 1) - 1

\* deliver failed on every one of the MaxRetries attempts.
C37_Witness ==
    /\ AllAttemptsFailed
    /\ http.adapter = "destination"
    /\ http.max_retries = MaxRetries
    /\ Len(Waits) = MaxRetries - 1
    /\ http.result[1].kind = "raised"

(***************************************************************************)
(* C38                                                                     *)
(***************************************************************************)

SupportedMethods == {"GET", "POST", "PUT", "DELETE"}

\* The current call is a fetch, with at least one attempt allowed, of a
\* request whose method is none of the four.
UnsupportedFetch ==
    /\ http.adapter = "source"
    /\ http.max_retries >= 1
    /\ upper(http.request.method) \notin SupportedMethods

\* C38: a fetch of a request with a method other than GET, POST, PUT, DELETE
\* sends nothing in any attempt, each attempt ending with the ValueError of
\* _make_request; it never returns, and it ends only after M attempts and
\* M - 1 waits, raising SourceFetchError caused by that ValueError.  In every
\* fetch, a request that is sent carries a body only for POST and PUT, the
\* body of the descriptor.
C38_UnsupportedMethod ==
    /\ UnsupportedFetch =>
           /\ \A i \in DOMAIN Attempts :
                  /\ Attempts[i].sent = None
                  /\ IsValueError(Attempts[i].failure)
           /\ ~HttpReturned
           /\ http.pc = "done" =>
                  /\ Len(Attempts) = http.max_retries
                  /\ Len(SelectSeq(http.events, IsSleep)) = http.max_retries - 1
                  /\ http.result[1].value[1].type = "SourceFetchError"
                  /\ http.result[1].value[1].cause = Attempts[http.max_retries].failure
    /\ http.adapter = "source" =>
           \A i \in DOMAIN Attempts :
               Attempts[i].sent # None =>
                   LET sent == Attempts[i].sent[1]
                   IN  /\ sent.method = upper(http.request.method)
                       /\ sent.method \in SupportedMethods
                       /\ sent.json = IF sent.method \in {"POST", "PUT"}
                                      THEN http.request.body ELSE None

\* A PATCH fetch that used up its MaxRetries attempts.
C38_Witness ==
    /\ UnsupportedFetch
    /\ http.max_retries = MaxRetries
    /\ HttpRaised
    /\ Len(Attempts) = MaxRetries
    /\ http.result[1].value[1].args = <<"Unexpected error: Unsupported HTTP method: PATCH">>

(***************************************************************************)
(* C39                                                                     *)
(***************************************************************************)

====
